---- MODULE Spec2Model ----
(***************************************************************************)
(* A model of cs2-rcon-console: the Source RCON client (packet codec,      *)
(* stream reassembly, request correlation, connect / authenticate /        *)
(* execute / disconnect) and the per-browser WebSocket session of the      *)
(* gateway that drives it and subscribes to the shared UDP log receiver.   *)
(*                                                                         *)
(* A handler of the program runs to completion on one event-loop turn, so  *)
(* each handler is one action.  Handlers are written as functions from a   *)
(* world record w (all the program's state) to the world after the call,   *)
(* which lets a handler call the methods it calls in the source.  A        *)
(* promise continuation (the code after an await) runs in the turn that    *)
(* settles the promise, after the synchronous code that settled it.        *)
(***************************************************************************)
EXTENDS Integers, Sequences, FiniteSets, TLC

VARIABLES
  clients,     \* the RconClient instances: socket, authenticated, requestId, pendingRequests, responseBuffer
  sockets,     \* the net.Socket objects ever created: owner, state, the connect() call that made them
  promises,    \* the promises of connect(), authenticate() and execute() with their timers
  session,     \* the /ws closure of one browser: rcon, rconHost, rconPort, logListener
  logReceiver, \* the shared LogReceiver: listening, and the "log" listeners registered on it
  events,      \* what the last handler did to the outside: sends, socket writes, emits, settle calls
  stream,      \* codec runs: the packets the backend sends on one connection, and their bytes
  fed,         \* codec runs: how many bytes of the stream were delivered as 'data' events
  handled,     \* the packets handlePacket was called with: by the last handler, in codec runs since the start
  a2s,         \* one queryA2SInfo call: its UDP socket, timer and promise, what it sent and received
  recv,        \* receiver runs: one LogReceiver with its UDP sockets and listeners, and what the last handler delivered
  parsed,      \* parser runs: the line parseLogLine is called with, and the events it returned
  browser      \* the page's useRcon state: connected and logStreaming

vars == <<clients, sockets, promises, session, logReceiver, events, stream, fed, handled, a2s, recv, parsed, browser>>

----------------------------------------------------------------------------
(* Bounds of the model. *)

\* RconClient instances (gateway `connect` messages carried out).
MaxClients == 2
\* net.Socket objects created in a run.
MaxSockets == MaxClients
\* Promises (connect, authenticate, execute calls) created in a run.
MaxPromises == 4
\* request_status messages carried out in a run.
MaxStatusRequests == 1
\* Log listeners created by enable_logs in a run.
MaxListeners == MaxClients
\* The backend hosts a session may name in `connect`; a log datagram may also come from
\* an address that is none of them (0).
Hosts == {1}
\* Largest correlation id the backend puts in a packet.
MaxPacketId == 3
\* Packets in the stream of a codec run.
MaxPackets == 2

----------------------------------------------------------------------------
(* Program constants. *)

PacketType_AUTH == 3
PacketType_AUTH_RESPONSE == 2
PacketType_EXEC_COMMAND == 2
PacketType_RESPONSE_VALUE == 0
\* The id a backend puts in an AUTH_RESPONSE to signal a wrong password.
AuthFailureId == -1

----------------------------------------------------------------------------
(* Small helpers on sequences. *)

RECURSIVE FlattenSeq(_)
FlattenSeq(ss) == IF ss = <<>> THEN <<>> ELSE Head(ss) \o FlattenSeq(Tail(ss))

Drop(seq, n) == IF n >= Len(seq) THEN <<>> ELSE SubSeq(seq, n + 1, Len(seq))

----------------------------------------------------------------------------
(* Events: what a handler does that the outside can observe. *)

\* send(socket, {type: k, ...}) to the browser; a is the host a log_event came from.
EvSend(k, a) == [t |-> "send", k |-> k, a |-> a, b |-> 0]
\* socket.write(packet) on socket s of a packet of type k ("AUTH" or "EXEC") and id.
EvWrite(k, s, id) == [t |-> "write", k |-> k, a |-> s, b |-> id]
\* this.emit(k, ...) on client c; b is the id of the packet of a 'response'.
EvEmit(k, c, b) == [t |-> "emit", k |-> k, a |-> c, b |-> b]
\* A call of a promise's resolve ("resolve") or reject ("reject") for promise p with
\* error message k; b = 1 when the call settled the promise, 0 when it was settled before.
EvSettle(how, k, p, took) == [t |-> how, k |-> k, a |-> p, b |-> IF took THEN 1 ELSE 0]
\* An exception that left a handler (k names it), on client or promise a.
EvThrow(k, a) == [t |-> "throw", k |-> k, a |-> a, b |-> 0]

Log(w, e) == [w EXCEPT !.events = Append(@, e)]

----------------------------------------------------------------------------
(* The page (useRcon): what it shows of the session. *)

NoView == [connected |-> FALSE, logStreaming |-> FALSE]

\* ws.onmessage for a message of type k (log_streaming with enabled true or false).
onmessage(view, k) ==
  CASE k = "connected" -> [view EXCEPT !.connected = TRUE]
    [] k = "disconnected" -> NoView
    [] k = "log_streaming_on" -> [view EXCEPT !.logStreaming = TRUE]
    [] k = "log_streaming_off" -> [view EXCEPT !.logStreaming = FALSE]
    [] OTHER -> view

\* The messages a handler sent on the open WebSocket reach the page in the order sent.
RECURSIVE Delivered(_, _)
Delivered(view, evs) ==
  IF evs = <<>> THEN view
  ELSE Delivered(IF Head(evs).t = "send" /\ Head(evs).b = 1 THEN onmessage(view, Head(evs).k) ELSE view,
                 Tail(evs))

\* The page after a handler that ran to world w; ws.onclose when the WebSocket is closed.
Shown(view, w) == IF w.session.open THEN Delivered(view, w.events) ELSE NoView

----------------------------------------------------------------------------
(* WireCodec: packets as bytes. *)

\* Buffer.writeInt32LE: the four little-endian bytes of a 32-bit integer.
Int32LE(n) ==
  << n % 256, (n \div 256) % 256, (n \div 65536) % 256, (n \div 16777216) % 256 >>

\* Buffer.readInt32LE at 0-based offset off (the caller checks the length).
ReadInt32LE(buf, off) ==
  LET b3 == buf[off + 4]
  IN buf[off + 1] + 256 * buf[off + 2] + 65536 * buf[off + 3]
     + 16777216 * (IF b3 >= 128 THEN b3 - 256 ELSE b3)

\* Buffer.from(body, "ascii"): one byte per UTF-16 code unit, its low 8 bits.
AsciiEncode(body) == [i \in 1..Len(body) |-> body[i] % 256]

\* buf.toString("ascii", start, end): 0-based [start, end), clamped; the high bit is cleared.
AsciiSlice(buf, start, end) ==
  LET e == IF end > Len(buf) THEN Len(buf) ELSE end
  IN IF start >= Len(buf) \/ e <= start THEN <<>>
     ELSE [i \in 1..(e - start) |-> buf[start + i] % 128]

\* A variant of the packet layout whose size field counts one terminator only.
PacketBytesOneTerminator(id, type, body) ==
  LET bodyBuffer == AsciiEncode(body)
      size == 4 + 4 + Len(bodyBuffer) + 1
  IN Int32LE(size) \o Int32LE(id) \o Int32LE(type) \o bodyBuffer \o <<0, 0>>

\* The bytes encodePacket builds for a given id.
PacketBytes(id, type, body) ==
  LET bodyBuffer == AsciiEncode(body)
      size == 4 + 4 + Len(bodyBuffer) + 1 + 1
  IN Int32LE(size) \o Int32LE(id) \o Int32LE(type) \o bodyBuffer \o <<0, 0>>

\* A variant of encodePacket that does not advance the request id counter.
encodePacketWithoutIncrement(w, c, type, body) ==
  LET id == w.clients[c].requestId + 1
  IN [w |-> w, id |-> id, packet |-> PacketBytes(id, type, body)]

\* encodePacket: takes the next request id of client c and builds the packet.
encodePacket(w, c, type, body) ==
  LET id == w.clients[c].requestId + 1
  IN [w |-> [w EXCEPT !.clients[c].requestId = id],
      id |-> id,
      packet |-> PacketBytes(id, type, body)]

NullPacket == [kind |-> "null", size |-> 0, id |-> 0, type |-> 0, body |-> <<>>, totalLength |-> 0]
ThrowPacket == [NullPacket EXCEPT !.kind = "throw"]

\* A variant of decodePacket that does not wait for size + 4 bytes.
decodePacketWithoutLengthCheck(buffer) ==
  IF Len(buffer) < 4 THEN NullPacket
  ELSE IF Len(buffer) < 12 THEN ThrowPacket
  ELSE LET size == ReadInt32LE(buffer, 0)
       IN [kind |-> "packet", size |-> size,
           id |-> ReadInt32LE(buffer, 4),
           type |-> ReadInt32LE(buffer, 8),
           body |-> AsciiSlice(buffer, 12, 12 + size - 10),
           totalLength |-> size + 4]

\* decodePacket: null when incomplete; readInt32LE throws a RangeError past the end.
decodePacket(buffer) ==
  IF Len(buffer) < 4 THEN NullPacket
  ELSE LET size == ReadInt32LE(buffer, 0)
           totalLength == size + 4
       IN IF Len(buffer) < totalLength THEN NullPacket
          ELSE IF Len(buffer) < 12 THEN ThrowPacket
          ELSE [kind |-> "packet", size |-> size,
                id |-> ReadInt32LE(buffer, 4),
                type |-> ReadInt32LE(buffer, 8),
                body |-> AsciiSlice(buffer, 12, 12 + size - 10),
                totalLength |-> totalLength]

\* buf.subarray(n): a negative n counts from the end.
Subarray(buf, n) ==
  IF n >= 0 THEN Drop(buf, n)
  ELSE Drop(buf, IF Len(buf) + n < 0 THEN 0 ELSE Len(buf) + n)

----------------------------------------------------------------------------
(* The world record and promises. *)

World == [clients |-> clients, sockets |-> sockets, promises |-> promises,
          session |-> session, logReceiver |-> logReceiver, events |-> <<>>,
          handled |-> <<>>]

NewClient(gw) ==
  [socket |-> 0, authenticated |-> FALSE, requestId |-> 0,
   pendingRequests |-> <<>>, responseBuffer |-> <<>>, gw |-> gw]

\* A promise made by connect ("connect"), authenticate ("auth") or execute ("exec") of
\* client c.  id: the request id of its PendingRequest; timer: its setTimeout is armed;
\* parent: the connect promise an auth promise settles; h: the gateway handler awaiting
\* it ("none": no gateway handler), host: the host of a gateway `connect`;
\* st: "pending", "resolved" or "rejected".
NewPromise(kind, c, id, parent, h, host) ==
  [kind |-> kind, c |-> c, id |-> id, st |-> "pending", timer |-> TRUE,
   parent |-> parent, h |-> h, host |-> host]

\* send(ws, msg): b = 1 when the WebSocket is still open.
send(w, k, a) == Log(w, [EvSend(k, a) EXCEPT !.b = IF w.session.open THEN 1 ELSE 0])

\* EventEmitter.removeListener("log", l) on the LogReceiver.
removeListener(w, l) ==
  [w EXCEPT !.logReceiver.listeners = {x \in @ : x.id # l}]

\* The code after `await` in the gateway handler that awaits promise p.
\* send(ws, msg) of one of the two replies to the request_status whose promises start at g.
sendStatus(w, k, a, g) ==
  Log(w, [t |-> "send", k |-> k, a |-> a, b |-> IF w.session.open THEN 1 ELSE 0, g |-> g])

\* The promises of a request_status: the A2S query at g, execute("status") and
\* execute("stats") after it.  StatusGroup: the first of them, for any of them.
StatusGroup(w, p) ==
  IF w.promises[p].kind = "a2s" THEN p
  ELSE IF w.promises[p - 1].kind = "a2s" THEN p - 1 ELSE p - 2

\* Promise.allSettled of the three is fulfilled.
AllSettled(w, g) ==
  /\ Len(w.promises) >= g + 2
  /\ \A j \in g..(g + 2) : w.promises[j].st # "pending"

\* A variant of the code after the await that fails when one of the three failed, as
\* Promise.all would.
afterAllFulfilled(w, g) ==
  IF \E j \in g..(g + 2) : w.promises[j].st = "rejected" THEN send(w, "error", 0)
  ELSE sendStatus(sendStatus(w, "server_status", 1, g), "player_list", 1, g)

\* case "request_status" after its await: server_status with the static fields of the A2S
\* result (a = 1) or of the parsed status (a = 0), then player_list with the players of
\* the status response (a = 1) or of the empty string (a = 0).
afterAllSettled(w, g) ==
  LET fromA2S == w.promises[g].st = "resolved"
      statusFulfilled == w.promises[g + 1].st = "resolved"
  IN sendStatus(sendStatus(w, "server_status", IF fromA2S THEN 1 ELSE 0, g),
                "player_list", IF statusFulfilled THEN 1 ELSE 0, g)

Continue(w, p, how, err) ==
  LET pr == w.promises[p]
  IN CASE pr.h = "connect" ->
            IF how = "resolve"
            THEN send([w EXCEPT !.session.rconHost = pr.host, !.session.rconPort = pr.host],
                      "connected", pr.host)
            ELSE [send(w, "error", 0) EXCEPT !.session.rcon = 0,
                                             !.session.rconHost = 0,
                                             !.session.rconPort = 0]
       [] pr.h = "command" ->
            IF how = "resolve" THEN send(w, "response", 0) ELSE send(w, "error", 0)
       [] pr.h = "enable_logs" ->
            IF how = "resolve" THEN send(w, "log_streaming_on", 0)
            ELSE IF w.session.logListener = 0
                 \* removeListener(null) throws a TypeError out of the catch block
                 THEN Log(w, EvThrow("TypeError", p))
                 ELSE send([removeListener(w, w.session.logListener)
                              EXCEPT !.session.logListener = 0], "error", 0)
       [] pr.h = "disable_logs" -> send(w, "log_streaming_off", 0)
       [] pr.h = "request_status" ->
            IF AllSettled(w, StatusGroup(w, p)) THEN afterAllSettled(w, StatusGroup(w, p))
            ELSE w
       [] OTHER -> w

\* A call of the resolve or reject function of a promise other than an auth promise.
SettleOuter(w, p, how, err) ==
  LET took == w.promises[p].st = "pending"
      w1 == Log(w, EvSettle(how, err, p, took))
  IN IF took
     THEN Continue([w1 EXCEPT !.promises[p].st = IF how = "resolve" THEN "resolved" ELSE "rejected"],
                   p, how, err)
     ELSE w1

\* A call of the resolve or reject function of any promise.  An auth promise is chained
\* to its connect(): .then(() => resolve()).catch((err) => reject(err)).
Settle(w, p, how, err) ==
  IF w.promises[p].kind = "auth"
  THEN LET took == w.promises[p].st = "pending"
           w1 == Log(w, EvSettle(how, err, p, took))
       IN IF took
          THEN SettleOuter([w1 EXCEPT !.promises[p].st = IF how = "resolve" THEN "resolved" ELSE "rejected"],
                           w.promises[p].parent, how, err)
          ELSE w1
  ELSE SettleOuter(w, p, how, err)

\* PendingRequest.resolve / PendingRequest.reject: clearTimeout(timer), then settle.
EntryCall(w, p, how, err) ==
  Settle([w EXCEPT !.promises[p].timer = FALSE], p, how, err)

\* this.emit(k, ...) on an RconClient: the gateway listens to 'disconnect' and 'error'.
emit(w, c, k, b) ==
  LET w1 == Log(w, EvEmit(k, c, b))
  IN IF ~w.clients[c].gw THEN w1
     ELSE IF k = "disconnect" THEN send(w1, "disconnected", 0)
     ELSE IF k = "error" THEN send(w1, "error", 0)
     ELSE w1

----------------------------------------------------------------------------
(* RconClient. *)

\* A variant of isConnected that does not look at socket.destroyed.
isConnectedIgnoringDestroyed(w, c) ==
  /\ w.clients[c].socket # 0
  /\ w.clients[c].authenticated

\* get isConnected
isConnected(w, c) ==
  /\ w.clients[c].socket # 0
  /\ w.sockets[w.clients[c].socket].st \in {"connecting", "open"}
  /\ w.clients[c].authenticated

\* Map.set(id, entry): a new key goes last, an existing key keeps its place.
MapSet(pending, id, p) ==
  IF \E i \in 1..Len(pending) : pending[i].id = id
  THEN [i \in 1..Len(pending) |-> IF pending[i].id = id THEN [id |-> id, p |-> p] ELSE pending[i]]
  ELSE Append(pending, [id |-> id, p |-> p])

\* Map.delete(id)
MapDelete(pending, id) == SelectSeq(pending, LAMBDA e : e.id # id)

\* this.socket!.write(packet): a TypeError when this.socket is null.
socketWrite(w, c, k, id) ==
  IF w.clients[c].socket = 0 THEN Log(w, EvThrow("TypeError", c))
  ELSE Log(w, EvWrite(k, w.clients[c].socket, id))

\* A variant of disconnect that destroys the socket but keeps referring to it.
disconnectKeepingSocket(w, c) ==
  LET s == w.clients[c].socket
      w1 == IF s # 0
            THEN [w EXCEPT !.sockets[s].st = IF @ \in {"connecting", "open"} THEN "destroyed" ELSE @]
            ELSE w
  IN [w1 EXCEPT !.clients[c].authenticated = FALSE,
                !.clients[c].pendingRequests = <<>>,
                !.clients[c].responseBuffer = <<>>]

\* disconnect(): destroy the socket, forget it and clear the client's state.
disconnect(w, c) ==
  LET s == w.clients[c].socket
      w1 == IF s # 0
            THEN [w EXCEPT !.sockets[s].st = IF @ \in {"connecting", "open"} THEN "destroyed" ELSE @,
                           !.clients[c].socket = 0]
            ELSE w
  IN [w1 EXCEPT !.clients[c].authenticated = FALSE,
                !.clients[c].pendingRequests = <<>>,
                !.clients[c].responseBuffer = <<>>]

\* A variant of handlePacket that looks the failed request up under the packet's id.
handlePacketFailureById(w, c, packet) ==
  LET pending == w.clients[c].pendingRequests
      w0 == [w EXCEPT !.handled = Append(@, [id |-> packet.id, type |-> packet.type, body |-> packet.body])]
      hit == {i \in 1..Len(pending) : pending[i].id = packet.id}
      w1 == IF hit # {}
            THEN LET e == pending[CHOOSE i \in hit : TRUE]
                     wd == [w0 EXCEPT !.clients[c].pendingRequests = MapDelete(pending, packet.id)]
                 IN IF packet.type = PacketType_AUTH_RESPONSE /\ packet.id = AuthFailureId
                    THEN EntryCall(wd, e.p, "reject", "Authentication failed")
                    ELSE IF packet.type = PacketType_AUTH_RESPONSE
                    THEN EntryCall([wd EXCEPT !.clients[c].authenticated = TRUE], e.p, "resolve", "")
                    ELSE EntryCall(wd, e.p, "resolve", "")
            ELSE w0
  IN emit(w1, c, "response", packet.id)

\* A variant of handlePacket that gives a response to the oldest pending request.
handlePacketByArrivalOrder(w, c, packet) ==
  LET pending == w.clients[c].pendingRequests
      w0 == [w EXCEPT !.handled = Append(@, [id |-> packet.id, type |-> packet.type, body |-> packet.body])]
      w1 == IF pending # <<>>
            THEN LET e == Head(pending)
                     wd == [w0 EXCEPT !.clients[c].pendingRequests = Tail(pending)]
                 IN IF packet.type = PacketType_AUTH_RESPONSE /\ packet.id = AuthFailureId
                    THEN EntryCall(wd, e.p, "reject", "Authentication failed")
                    ELSE IF packet.type = PacketType_AUTH_RESPONSE
                    THEN EntryCall([wd EXCEPT !.clients[c].authenticated = TRUE], e.p, "resolve", "")
                    ELSE EntryCall(wd, e.p, "resolve", "")
            ELSE w0
  IN emit(w1, c, "response", packet.id)

\* handlePacket: route a decoded packet to the matching pending request.
handlePacket(w, c, packet) ==
  LET pending == w.clients[c].pendingRequests
      w0 == [w EXCEPT !.handled = Append(@, [id |-> packet.id, type |-> packet.type, body |-> packet.body])]
  IN IF packet.type = PacketType_AUTH_RESPONSE /\ packet.id = AuthFailureId
     THEN LET w1 == IF pending # <<>>
                    THEN EntryCall([w0 EXCEPT !.clients[c].pendingRequests = Tail(pending)],
                                   Head(pending).p, "reject", "Authentication failed")
                    ELSE w0
          IN emit(w1, c, "response", packet.id)
     ELSE LET hit == {i \in 1..Len(pending) : pending[i].id = packet.id}
              w1 == IF hit # {}
                    THEN LET e == pending[CHOOSE i \in hit : TRUE]
                             wd == [w0 EXCEPT !.clients[c].pendingRequests = MapDelete(pending, packet.id)]
                         IN IF packet.type = PacketType_AUTH_RESPONSE
                            THEN EntryCall([wd EXCEPT !.clients[c].authenticated = TRUE],
                                           e.p, "resolve", "")
                            ELSE EntryCall(wd, e.p, "resolve", "")
                    ELSE w0
          IN emit(w1, c, "response", packet.id)

\* The while loop of handleData: decode, consume totalLength bytes, dispatch, again.
\* A RangeError of decodePacket leaves the loop; a decode that consumes nothing never ends.
RECURSIVE DecodeLoop(_, _)
DecodeLoop(w, c) ==
  LET buf == w.clients[c].responseBuffer
      packet == decodePacket(buf)
  IN IF packet.kind = "null" THEN w
     ELSE IF packet.kind = "throw" THEN Log(w, EvThrow("RangeError", c))
     ELSE LET rest == Subarray(buf, packet.totalLength)
          IN IF rest = buf THEN Log(w, EvThrow("hang", c))
             ELSE DecodeLoop(handlePacket([w EXCEPT !.clients[c].responseBuffer = rest], c, packet), c)

\* A variant of handleData that decodes the incoming bytes alone, dropping a buffered tail.
handleDataDroppingTail(w, c, data) ==
  DecodeLoop([w EXCEPT !.clients[c].responseBuffer = data], c)

\* handleData: append the incoming bytes and decode as many packets as are complete.
handleData(w, c, data) ==
  DecodeLoop([w EXCEPT !.clients[c].responseBuffer = @ \o data], c)

\* authenticate(password): register the auth request under the next id and write it.
authenticate(w, c, parent) ==
  LET enc == encodePacket(w, c, PacketType_AUTH, <<>>)
      p == Len(w.promises) + 1
      w1 == [enc.w EXCEPT !.promises = Append(@, NewPromise("auth", c, enc.id, parent, "none", 0)),
                          !.clients[c].pendingRequests = MapSet(@, enc.id, p)]
  IN socketWrite(w1, c, "AUTH", enc.id)

\* A variant of connect that does not disconnect a previous socket.
connectWithoutTeardown(w, c, h, host) ==
  LET s == Len(w.sockets) + 1
      p == Len(w.promises) + 1
  IN [w EXCEPT !.sockets = Append(@, [owner |-> c, st |-> "connecting", p |-> p]),
               !.promises = Append(@, NewPromise("connect", c, 0, 0, h, host)),
               !.clients[c].socket = s,
               !.clients[c].authenticated = FALSE,
               !.clients[c].requestId = 0,
               !.clients[c].pendingRequests = <<>>,
               !.clients[c].responseBuffer = <<>>]

\* connect(host, port, password): tear down a previous socket, make a new one, reset the
\* client and arm the connect timer.  h and host: the gateway handler awaiting the call.
connect(w, c, h, host) ==
  LET w1 == IF w.clients[c].socket # 0 THEN disconnect(w, c) ELSE w
      s == Len(w1.sockets) + 1
      p == Len(w1.promises) + 1
  IN [w1 EXCEPT !.sockets = Append(@, [owner |-> c, st |-> "connecting", p |-> p]),
                !.promises = Append(@, NewPromise("connect", c, 0, 0, h, host)),
                !.clients[c].socket = s,
                !.clients[c].authenticated = FALSE,
                !.clients[c].requestId = 0,
                !.clients[c].pendingRequests = <<>>,
                !.clients[c].responseBuffer = <<>>]

\* A variant of execute that builds the packet before it looks at `authenticated`.
executeEncodingFirst(w, c, h) ==
  LET p == Len(w.promises) + 1
      enc == encodePacket(w, c, PacketType_EXEC_COMMAND, <<>>)
  IN IF ~w.clients[c].authenticated
     THEN Settle([enc.w EXCEPT !.promises = Append(@, [NewPromise("exec", c, 0, 0, h, 0) EXCEPT !.timer = FALSE])],
                 p, "reject", "Not authenticated")
     ELSE LET w1 == [enc.w EXCEPT !.promises = Append(@, NewPromise("exec", c, enc.id, 0, h, 0)),
                                  !.clients[c].pendingRequests = MapSet(@, enc.id, p)]
          IN socketWrite(w1, c, "EXEC", enc.id)

\* execute(command): reject when not authenticated, else register the request and write it.
execute(w, c, h) ==
  LET p == Len(w.promises) + 1
  IN IF ~w.clients[c].authenticated
     THEN Settle([w EXCEPT !.promises = Append(@, [NewPromise("exec", c, 0, 0, h, 0) EXCEPT !.timer = FALSE])],
                 p, "reject", "Not authenticated")
     ELSE LET enc == encodePacket(w, c, PacketType_EXEC_COMMAND, <<>>)
              w1 == [enc.w EXCEPT !.promises = Append(@, NewPromise("exec", c, enc.id, 0, h, 0)),
                                  !.clients[c].pendingRequests = MapSet(@, enc.id, p)]
          IN socketWrite(w1, c, "EXEC", enc.id)

\* this.socket!.write(packet) of the packet encodePacket built from body: the event keeps
\* the bytes handed to the socket.
socketWritePacket(w, c, k, id, body, packet) ==
  IF w.clients[c].socket = 0 THEN Log(w, EvThrow("TypeError", c))
  ELSE Log(w, [t |-> "write", k |-> k, a |-> w.clients[c].socket, b |-> id,
               body |-> body, bytes |-> packet])

\* execute(command) for a command text (a sequence of UTF-16 code units).  The first event
\* is the call itself: its promise and its command.  Buffer.from(body, "ascii") throws for
\* no string: it keeps the low byte of every code unit.
executeCommand(w, c, h, command) ==
  LET p == Len(w.promises) + 1
      w0 == Log(w, [t |-> "call", k |-> "execute", a |-> p, b |-> c, body |-> command])
  IN IF ~w.clients[c].authenticated
     THEN Settle([w0 EXCEPT !.promises = Append(@, [NewPromise("exec", c, 0, 0, h, 0) EXCEPT !.timer = FALSE])],
                 p, "reject", "Not authenticated")
     ELSE LET id == w.clients[c].requestId + 1
              packet == PacketBytes(id, PacketType_EXEC_COMMAND, command)
              w1 == [w0 EXCEPT !.clients[c].requestId = id,
                               !.promises = Append(@, NewPromise("exec", c, id, 0, h, 0)),
                               !.clients[c].pendingRequests = MapSet(@, id, p)]
          IN socketWritePacket(w1, c, "EXEC", id, command, packet)

\* The callback of socket.connect(port, host, cb) of socket s: the TCP connection is up.
onSocketConnect(w, s) ==
  LET so == w.sockets[s]
  IN authenticate([w EXCEPT !.sockets[s].st = "open", !.promises[so.p].timer = FALSE],
                  so.owner, so.p)

\* socket.on("error"): clear the connect timer, emit 'error', reject the connect() call.
\* The socket destroys itself after an error.
onSocketError(w, s) ==
  LET so == w.sockets[s]
      w1 == emit([w EXCEPT !.sockets[s].st = "destroyed", !.promises[so.p].timer = FALSE],
                 so.owner, "error", 0)
  IN Settle(w1, so.p, "reject", "socket error")

\* The rejections of the 'close' handler, in Map order.
RECURSIVE RejectAll(_, _)
RejectAll(w, pending) ==
  IF pending = <<>> THEN w
  ELSE RejectAll(EntryCall(w, Head(pending).p, "reject", "Connection closed"), Tail(pending))

\* socket.on("close"): the client is no longer authenticated, 'disconnect' is emitted,
\* every pending request is rejected and the table is cleared.
onSocketClose(w, s) ==
  LET c == w.sockets[s].owner
      w1 == emit([w EXCEPT !.sockets[s].st = "closed", !.clients[c].authenticated = FALSE],
                 c, "disconnect", 0)
      w2 == RejectAll(w1, w1.clients[c].pendingRequests)
  IN [w2 EXCEPT !.clients[c].pendingRequests = <<>>]

\* A variant of the connect timer that rejects the call and leaves the socket alone.
onConnectTimerRejectOnly(w, p) ==
  Settle([w EXCEPT !.promises[p].timer = FALSE], p, "reject", "Connection timed out")

\* The connect timer of connect() call p: disconnect the client, reject the call.
onConnectTimer(w, p) ==
  Settle(disconnect([w EXCEPT !.promises[p].timer = FALSE], w.promises[p].c),
         p, "reject", "Connection timed out")

\* The timer of authenticate() call p: reject the call (the table is left alone).
onAuthTimer(w, p) ==
  Settle([w EXCEPT !.promises[p].timer = FALSE], p, "reject", "Authentication timed out")

\* A variant of the execute timer that rejects only a request still in the table.
onExecuteTimerIfRegistered(w, p) ==
  LET pr == w.promises[p]
      pending == w.clients[pr.c].pendingRequests
  IN IF \E i \in 1..Len(pending) : pending[i].p = p
     THEN Settle([w EXCEPT !.promises[p].timer = FALSE,
                           !.clients[pr.c].pendingRequests = MapDelete(@, pr.id)],
                 p, "reject", "Command timed out")
     ELSE [w EXCEPT !.promises[p].timer = FALSE]

\* The timer of execute() call p: delete the request id from the table, reject the call.
onExecuteTimer(w, p) ==
  LET pr == w.promises[p]
  IN Settle([w EXCEPT !.promises[p].timer = FALSE,
                      !.clients[pr.c].pendingRequests = MapDelete(@, pr.id)],
            p, "reject", "Command timed out")

----------------------------------------------------------------------------
(* SessionGateway: the handlers of one WebSocket connection (app.get("/ws")). *)

\* case "connect"; host = 0 stands for a message without host, port or password.
\* The port of a host is identified with the host.
caseConnect(w, host) ==
  IF host = 0 THEN send(w, "error", 0)
  ELSE LET w1 == IF w.session.rcon # 0 THEN disconnect(w, w.session.rcon) ELSE w
           c == Len(w1.clients) + 1
           w2 == [w1 EXCEPT !.clients = Append(@, NewClient(TRUE)), !.session.rcon = c]
       IN connect(w2, c, "connect", host)

\* case "command"; hasCommand: the message carries a non-empty string command.
caseCommand(w, hasCommand) ==
  IF w.session.rcon = 0 \/ ~isConnected(w, w.session.rcon) THEN send(w, "error", 0)
  ELSE IF ~hasCommand THEN send(w, "error", 0)
  ELSE execute(w, w.session.rcon, "command")

\* case "disconnect"
caseDisconnect(w) ==
  LET w1 == IF w.session.rcon # 0
            THEN [disconnect(w, w.session.rcon) EXCEPT !.session.rcon = 0,
                                                       !.session.rconHost = 0,
                                                       !.session.rconPort = 0]
            ELSE w
  IN send(w1, "disconnected", 0)

\* case "request_status" up to its await: queryA2SInfo(rconHost, rconPort, 3000), or a
\* rejected promise when there is no host, then execute("status") and execute("stats").
caseRequestStatus(w) ==
  IF w.session.rcon = 0 \/ ~isConnected(w, w.session.rcon) THEN send(w, "error", 0)
  ELSE LET query == NewPromise("a2s", 0, 0, 0, "request_status", w.session.rconHost)
           w1 == [w EXCEPT !.promises =
                    Append(@, IF w.session.rconHost # 0 THEN query
                              ELSE [query EXCEPT !.st = "rejected", !.timer = FALSE])]
       IN execute(execute(w1, w.session.rcon, "request_status"),
                  w.session.rcon, "request_status")

\* queryA2SInfo settles: its promise is resolved with the Info reply, or rejected by its
\* timer, a socket error or a reply that cannot be parsed; the timer is then off.
onA2SSettled(w, p, how) ==
  EntryCall(w, p, how, IF how = "resolve" THEN "" ELSE "A2S_INFO failed")

\* A variant of case "enable_logs" that does not remove the listener registered before.
caseEnableLogsKeepingPrior(w) ==
  IF ~w.logReceiver.listening THEN send(w, "log_streaming_off", 0)
  ELSE IF w.session.rcon = 0 \/ ~isConnected(w, w.session.rcon) \/ w.session.rconHost = 0
  THEN send(w, "error", 0)
  ELSE LET l == w.session.nextListener
           w2 == [w EXCEPT !.logReceiver.listeners = @ \cup {[id |-> l, targetHost |-> w.session.rconHost]},
                           !.session.logListener = l,
                           !.session.nextListener = l + 1]
       IN execute(w2, w2.session.rcon, "enable_logs")

\* case "enable_logs"
caseEnableLogs(w) ==
  LET w1 == IF w.session.logListener # 0
            THEN [removeListener(w, w.session.logListener) EXCEPT !.session.logListener = 0]
            ELSE w
  IN IF ~w1.logReceiver.listening THEN send(w1, "log_streaming_off", 0)
     ELSE IF w1.session.rcon = 0 \/ ~isConnected(w1, w1.session.rcon) \/ w1.session.rconHost = 0
     THEN send(w1, "error", 0)
     ELSE LET l == w1.session.nextListener
              w2 == [w1 EXCEPT !.logReceiver.listeners = @ \cup {[id |-> l, targetHost |-> w1.session.rconHost]},
                               !.session.logListener = l,
                               !.session.nextListener = l + 1]
          IN execute(w2, w2.session.rcon, "enable_logs")

\* case "disable_logs"
caseDisableLogs(w) ==
  LET w1 == IF w.session.logListener # 0
            THEN [removeListener(w, w.session.logListener) EXCEPT !.session.logListener = 0]
            ELSE w
  IN IF w1.session.rcon # 0 /\ isConnected(w1, w1.session.rcon) /\ w1.logReceiver.listening
     THEN execute(w1, w1.session.rcon, "disable_logs")
     ELSE send(w1, "log_streaming_off", 0)

\* A variant of the WebSocket 'close' handler that leaves the log listener registered.
onWsCloseKeepingListener(w) ==
  LET w0 == [w EXCEPT !.session.open = FALSE,
                      !.session.closedWith = [rcon |-> w.session.rcon,
                                              ready |-> w.session.rcon # 0 /\ isConnected(w, w.session.rcon),
                                              listener |-> w.session.logListener]]
  IN IF w0.session.rcon # 0
     THEN [disconnect(w0, w0.session.rcon) EXCEPT !.session.rcon = 0,
                                                  !.session.rconHost = 0,
                                                  !.session.rconPort = 0]
     ELSE w0

\* A variant of the first half of the 'close' handler that disconnects the client there
\* and leaves the listener to be removed afterwards.
onWsCloseDisconnectingFirst(w) ==
  LET w0 == [w EXCEPT !.session.open = FALSE,
                      !.session.closedWith = [rcon |-> w.session.rcon,
                                              ready |-> w.session.rcon # 0 /\ isConnected(w, w.session.rcon),
                                              listener |-> w.session.logListener]]
  IN IF w0.session.rcon # 0 THEN disconnect(w0, w0.session.rcon) ELSE w0

\* socket.on("close") of the WebSocket, first half: clean up the log listener.
onWsCloseUnsubscribe(w) ==
  LET w0 == [w EXCEPT !.session.open = FALSE,
                      !.session.closedWith = [rcon |-> w.session.rcon,
                                              ready |-> w.session.rcon # 0 /\ isConnected(w, w.session.rcon),
                                              listener |-> w.session.logListener]]
  IN IF w0.session.logListener # 0
     THEN [removeListener(w0, w0.session.logListener) EXCEPT !.session.logListener = 0]
     ELSE w0

\* socket.on("close") of the WebSocket: the listener first, then the RconClient.
onWsClose(w) ==
  LET w1 == onWsCloseUnsubscribe(w)
  IN IF w1.session.rcon # 0
     THEN [disconnect(w1, w1.session.rcon) EXCEPT !.session.rcon = 0,
                                                  !.session.rconHost = 0,
                                                  !.session.rconPort = 0]
     ELSE w1

\* LogReceiver.handleMessage for a datagram of one log line from sourceIp: emit("log", msg)
\* calls the listeners in registration order; each sends when the source is its host.
RECURSIVE EmitLog(_, _, _)
EmitLog(w, ls, sourceIp) ==
  IF ls = {} THEN w
  ELSE LET l == CHOOSE x \in ls : \A y \in ls : x.id <= y.id
       IN EmitLog(IF sourceIp = l.targetHost THEN send(w, "log_event", sourceIp) ELSE w,
                  ls \ {l}, sourceIp)

handleMessage(w, sourceIp) == EmitLog(w, w.logReceiver.listeners, sourceIp)

----------------------------------------------------------------------------
(* Actions. *)

\* The state after a handler that ran from the current state to world w.
Commit(w) ==
  /\ clients' = w.clients
  /\ sockets' = w.sockets
  /\ promises' = w.promises
  /\ session' = w.session
  /\ logReceiver' = w.logReceiver
  /\ events' = w.events
  /\ handled' = w.handled
  /\ browser' = Shown(browser, w)
  /\ UNCHANGED <<stream, fed, a2s, recv, parsed>>

\* Room for one more socket and for the promises of one connect() (its own and its auth).
RoomToConnect == Len(sockets) < MaxSockets /\ Len(promises) < MaxPromises
RoomForPromise == Len(promises) < MaxPromises

\* The packets a backend may send to client c, of either response type: the failure id,
\* the ids the client has issued on this connection, and one id it has not issued.
BackendIds(c) == {AuthFailureId} \cup {id \in 1..MaxPacketId : id <= clients[c].requestId + 1}
BackendTypes == {PacketType_RESPONSE_VALUE, PacketType_AUTH_RESPONSE}

(* The browser's messages, handled while the WebSocket is open. *)

MsgConnect ==
  /\ session.open
  /\ \E host \in {0} \cup Hosts :
       /\ host # 0 => (Len(clients) < MaxClients /\ RoomToConnect)
       /\ Commit(caseConnect(World, host))

MsgCommand ==
  /\ session.open
  /\ RoomForPromise
  /\ \E hasCommand \in BOOLEAN : Commit(caseCommand(World, hasCommand))

MsgDisconnect ==
  /\ session.open
  /\ Commit(caseDisconnect(World))

MsgEnableLogs ==
  /\ session.open
  /\ RoomForPromise
  /\ session.nextListener <= MaxListeners
  /\ Commit(caseEnableLogs(World))

MsgDisableLogs ==
  /\ session.open
  /\ RoomForPromise
  /\ Commit(caseDisableLogs(World))

WsClose ==
  /\ session.open
  /\ Commit(onWsClose(World))

(* The backend, the network and the timers. *)

\* The TCP connection of a connecting socket is established.
SocketConnect ==
  \E s \in 1..Len(sockets) :
    /\ sockets[s].st = "connecting"
    /\ RoomForPromise
    /\ Commit(onSocketConnect(World, s))

\* The backend sends one whole packet on an open socket, received in one read.
SocketData ==
  \E s \in 1..Len(sockets), type \in BackendTypes :
    /\ sockets[s].st = "open"
    /\ clients[sockets[s].owner].responseBuffer = <<>>
    /\ \E id \in BackendIds(sockets[s].owner) :
         Commit(handleData(World, sockets[s].owner, PacketBytes(id, type, <<>>)))

\* The backend sends one packet that arrives in two reads: its size field, then the rest.
SocketSegment ==
  \E s \in 1..Len(sockets), type \in BackendTypes :
    /\ sockets[s].st = "open"
    /\ \E id \in BackendIds(sockets[s].owner) :
         LET c == sockets[s].owner
             bytes == PacketBytes(id, type, <<>>)
         IN IF clients[c].responseBuffer = <<>>
            THEN Commit(handleData(World, c, SubSeq(bytes, 1, 4)))
            ELSE Commit(handleData(World, c, SubSeq(bytes, 5, Len(bytes))))

\* A socket that is connecting or open fails (refused, reset).
SocketError ==
  \E s \in 1..Len(sockets) :
    /\ sockets[s].st \in {"connecting", "open"}
    /\ Commit(onSocketError(World, s))

\* The backend closes an open connection: the socket is destroyed, 'close' follows.
SocketPeerClose ==
  \E s \in 1..Len(sockets) :
    /\ sockets[s].st = "open"
    /\ Commit([World EXCEPT !.sockets[s].st = "destroyed"])

\* The 'close' event of a destroyed socket.
SocketClose ==
  \E s \in 1..Len(sockets) :
    /\ sockets[s].st = "destroyed"
    /\ Commit(onSocketClose(World, s))

ConnectTimer ==
  \E p \in 1..Len(promises) :
    /\ promises[p].kind = "connect" /\ promises[p].timer
    /\ Commit(onConnectTimer(World, p))

AuthTimer ==
  \E p \in 1..Len(promises) :
    /\ promises[p].kind = "auth" /\ promises[p].timer
    /\ Commit(onAuthTimer(World, p))

ExecuteTimer ==
  \E p \in 1..Len(promises) :
    /\ promises[p].kind = "exec" /\ promises[p].timer
    /\ Commit(onExecuteTimer(World, p))

\* A log datagram arrives from a backend host (0: some other address).
LogDatagram ==
  /\ logReceiver.listening
  /\ \E sourceIp \in {0} \cup Hosts : Commit(handleMessage(World, sourceIp))

Environment ==
  \/ SocketConnect \/ SocketData \/ SocketError \/ SocketPeerClose \/ SocketClose
  \/ ConnectTimer \/ AuthTimer \/ ExecuteTimer

----------------------------------------------------------------------------
(* Spec: one browser session of the gateway. *)

\* No A2S query is under way.
NoQuery ==
  [socket |-> "none", settled |-> FALSE, timer |-> FALSE, st |-> "none", err |-> "",
   value |-> <<>>, sent |-> <<>>, replies |-> <<>>, thrown |-> FALSE]

\* No LogReceiver object under study.
NoReceiver == [socket |-> 0, port |-> 0, socks |-> <<>>, logSubs |-> <<>>, errSubs |-> FALSE,
               notified |-> FALSE, thrown |-> FALSE, last |-> <<>>]

\* No parseLogLine call under study.
NoLine == [line |-> <<>>, events |-> <<>>]

NoSession ==
  [open |-> FALSE, rcon |-> 0, rconHost |-> 0, rconPort |-> 0, logListener |-> 0,
   nextListener |-> 1, closedWith |-> [rcon |-> 0, ready |-> FALSE, listener |-> 0]]

Init ==
  /\ clients = <<>>
  /\ sockets = <<>>
  /\ promises = <<>>
  /\ session = [NoSession EXCEPT !.open = TRUE]
  /\ logReceiver \in {[listening |-> b, listeners |-> {}] : b \in BOOLEAN}
  /\ events = <<>>
  /\ stream = [packets |-> <<>>, bytes |-> <<>>]
  /\ fed = 0
  /\ handled = <<>>
  /\ a2s = NoQuery
  /\ recv = NoReceiver
  /\ parsed = NoLine
  /\ browser = NoView

Next ==
  \/ MsgConnect \/ MsgCommand \/ MsgDisconnect \/ MsgEnableLogs \/ MsgDisableLogs
  \/ WsClose \/ LogDatagram
  \/ Environment

Spec == Init /\ [][Next]_vars

(* SpecStatus: the same session with request_status messages and the A2S queries they
   start. *)
StatusRequests == {p \in 1..Len(promises) : promises[p].kind = "a2s"}

MsgRequestStatus ==
  /\ session.open
  /\ Cardinality(StatusRequests) < MaxStatusRequests
  /\ Commit(caseRequestStatus(World))

A2SSettled ==
  \E p \in StatusRequests :
    /\ promises[p].st = "pending"
    /\ \E how \in {"resolve", "reject"} : Commit(onA2SSettled(World, p, how))

NextStatus ==
  \/ MsgConnect \/ MsgDisconnect \/ WsClose \/ MsgRequestStatus \/ A2SSettled
  \/ Environment

SpecStatus == Init /\ [][NextStatus]_vars

(* SpecStatusConnected: the session from the moment its `connect` to a host has
   succeeded, with request_status messages, the backend's answers, failures and timers,
   and the end of the connection or of the session. *)
FreshWorld ==
  [clients |-> <<>>, sockets |-> <<>>, promises |-> <<>>,
   session |-> [NoSession EXCEPT !.open = TRUE],
   logReceiver |-> [listening |-> FALSE, listeners |-> {}],
   events |-> <<>>, handled |-> <<>>]

\* `connect` to host, the TCP connection established, the auth request answered.
ConnectedWorld(host) ==
  handleData(onSocketConnect(caseConnect(FreshWorld, host), 1), 1,
             PacketBytes(1, PacketType_AUTH_RESPONSE, <<>>))

InitStatusConnected ==
  /\ \E host \in Hosts :
       /\ clients = ConnectedWorld(host).clients
       /\ sockets = ConnectedWorld(host).sockets
       /\ promises = ConnectedWorld(host).promises
       /\ session = ConnectedWorld(host).session
       /\ logReceiver = ConnectedWorld(host).logReceiver
  /\ events = <<>>
  /\ stream = [packets |-> <<>>, bytes |-> <<>>]
  /\ fed = 0
  /\ handled = <<>>
  /\ a2s = NoQuery
  /\ recv = NoReceiver
  /\ parsed = NoLine
  /\ browser = [NoView EXCEPT !.connected = TRUE]

NextStatusConnected ==
  \/ MsgRequestStatus \/ A2SSettled \/ MsgDisconnect \/ WsClose
  \/ SocketData \/ SocketError \/ SocketPeerClose \/ SocketClose \/ ExecuteTimer

SpecStatusConnected == InitStatusConnected /\ [][NextStatusConnected]_vars

(* SpecHosts: the same session with a second backend host to connect to and to
   receive log datagrams from. *)
OtherHosts == {2}

MsgConnectElsewhere ==
  /\ session.open
  /\ Len(clients) < MaxClients /\ RoomToConnect
  /\ \E host \in OtherHosts : Commit(caseConnect(World, host))

LogDatagramElsewhere ==
  /\ logReceiver.listening
  /\ \E sourceIp \in OtherHosts : Commit(handleMessage(World, sourceIp))

NextHosts == Next \/ MsgConnectElsewhere \/ LogDatagramElsewhere

SpecHosts == Init /\ [][NextHosts]_vars

----------------------------------------------------------------------------
(* SpecClient: one RconClient driven directly through its public methods. *)

ApiConnect ==
  /\ RoomToConnect
  /\ Commit(connect(World, 1, "none", 0))

ApiExecute ==
  /\ RoomForPromise
  /\ Commit(execute(World, 1, "none"))

ApiDisconnect == Commit(disconnect(World, 1))

InitClient ==
  /\ clients = <<NewClient(FALSE)>>
  /\ sockets = <<>>
  /\ promises = <<>>
  /\ session = NoSession
  /\ logReceiver = [listening |-> FALSE, listeners |-> {}]
  /\ events = <<>>
  /\ stream = [packets |-> <<>>, bytes |-> <<>>]
  /\ fed = 0
  /\ handled = <<>>
  /\ a2s = NoQuery
  /\ recv = NoReceiver
  /\ parsed = NoLine
  /\ browser = NoView

NextClient == ApiConnect \/ ApiExecute \/ ApiDisconnect \/ SocketSegment \/ Environment

SpecClient == InitClient /\ [][NextClient]_vars

\* SpecClient with timers that fire: a timer that stays armed expires.
SpecClientFair ==
  /\ SpecClient
  /\ WF_vars(ConnectTimer) /\ WF_vars(AuthTimer) /\ WF_vars(ExecuteTimer)

----------------------------------------------------------------------------
(* SpecEncode: one RconClient that is connected and authenticated, and execute() calls
   with command texts of ASCII and other characters. *)

\* "A", "status", e-acute (U+00E9), the euro sign (U+20AC), and "A" euro "B".
Commands == {<<65>>, <<115, 116, 97, 116, 117, 115>>, <<233>>, <<8364>>, <<65, 8364, 66>>}

\* connect() on a new client, the TCP connection established, the auth request answered.
ReadyClientWorld ==
  handleData(onSocketConnect(connect([FreshWorld EXCEPT !.clients = <<NewClient(FALSE)>>,
                                                        !.session = NoSession],
                                     1, "none", 0), 1),
             1, PacketBytes(1, PacketType_AUTH_RESPONSE, <<>>))

ApiExecuteCommand ==
  /\ RoomForPromise
  /\ \E command \in Commands : Commit(executeCommand(World, 1, "none", command))

InitEncode ==
  /\ clients = ReadyClientWorld.clients
  /\ sockets = ReadyClientWorld.sockets
  /\ promises = ReadyClientWorld.promises
  /\ session = NoSession
  /\ logReceiver = [listening |-> FALSE, listeners |-> {}]
  /\ events = <<>>
  /\ stream = [packets |-> <<>>, bytes |-> <<>>]
  /\ fed = 0
  /\ handled = <<>>
  /\ a2s = NoQuery
  /\ recv = NoReceiver
  /\ parsed = NoLine
  /\ browser = NoView

NextEncode ==
  \/ ApiExecuteCommand \/ ApiDisconnect
  \/ SocketData \/ SocketError \/ SocketPeerClose \/ SocketClose \/ ExecuteTimer

SpecEncode == InitEncode /\ [][NextEncode]_vars

----------------------------------------------------------------------------
(* SpecCodec: one connection's byte stream, cut into TCP reads at any byte. *)

\* Packet bodies: empty, or the one character 'A'.
Bodies == {<<>>, <<65>>}

CodecPackets == [id : {AuthFailureId, 1}, type : BackendTypes, body : Bodies]

\* The bytes of a sequence of packets, as buildResponsePacket / encodePacket lay them out.
StreamBytes(ps) == FlattenSeq([i \in 1..Len(ps) |-> PacketBytes(ps[i].id, ps[i].type, ps[i].body)])

\* A stream: the packets the backend sends and the bytes they make on the wire.
Streams ==
  {[packets |-> ps, bytes |-> StreamBytes(ps)] :
     ps \in UNION {[1..n -> CodecPackets] : n \in 1..MaxPackets}}

\* socket.on("data"): the next n bytes of the stream arrive in one read.
SocketRead ==
  \E n \in 1..(Len(stream.bytes) - fed) :
    LET w == handleData(World, 1, SubSeq(stream.bytes, fed + 1, fed + n))
    IN /\ clients' = w.clients
       /\ events' = w.events
       /\ handled' = handled \o w.handled
       /\ fed' = fed + n
       /\ UNCHANGED <<sockets, promises, session, logReceiver, stream, a2s, recv, parsed, browser>>

InitCodec ==
  /\ clients = <<NewClient(FALSE)>>
  /\ sockets = <<>>
  /\ promises = <<>>
  /\ session = NoSession
  /\ logReceiver = [listening |-> FALSE, listeners |-> {}]
  /\ events = <<>>
  /\ stream \in Streams
  /\ fed = 0
  /\ handled = <<>>
  /\ a2s = NoQuery
  /\ recv = NoReceiver
  /\ parsed = NoLine
  /\ browser = NoView

NextCodec == SocketRead

SpecCodec == InitCodec /\ [][NextCodec]_vars

(* SpecBytes: one connection on which the backend sends bytes that need not be packets:
   a size field of any value, then nothing, an id and a type, or these and two bytes. *)

\* Size fields: -100 (size + 4 is below minus the length of every buffer), -5,
\* -4 (size + 4 is 0), -1, 0, 4, 8 and 9.
SizeFields == {-100, -5, -4, -1, 0, 4, 8, 9}

\* What follows the size field: nothing; the id 1 and the type 0; these and a body of "A"
\* and one terminator.
AfterSize ==
  {<<>>,
   Int32LE(1) \o Int32LE(PacketType_RESPONSE_VALUE),
   Int32LE(1) \o Int32LE(PacketType_RESPONSE_VALUE) \o <<65, 0>>}

ByteStreams ==
  {[packets |-> <<>>, bytes |-> Int32LE(size) \o rest] : size \in SizeFields, rest \in AfterSize}

InitBytes ==
  /\ clients = <<NewClient(FALSE)>>
  /\ sockets = <<>>
  /\ promises = <<>>
  /\ session = NoSession
  /\ logReceiver = [listening |-> FALSE, listeners |-> {}]
  /\ events = <<>>
  /\ stream \in ByteStreams
  /\ fed = 0
  /\ handled = <<>>
  /\ a2s = NoQuery
  /\ recv = NoReceiver
  /\ parsed = NoLine
  /\ browser = NoView

NextBytes == SocketRead

SpecBytes == InitBytes /\ [][NextBytes]_vars

----------------------------------------------------------------------------
(* A2S_INFO: one queryA2SInfo call over its own UDP socket.  Buffers are sequences of
   bytes; offsets are 0-based as in the source. *)

\* Datagrams delivered to the socket in a run.
MaxReplies == 3

A2S_INFO_TYPE == 84
S2A_INFO_SRC == 73
S2C_CHALLENGE == 65

HEADER == <<255, 255, 255, 255>>
\* "Source Engine Query\0"
A2S_INFO_PAYLOAD ==
  <<83, 111, 117, 114, 99, 101, 32, 69, 110, 103, 105, 110, 101, 32, 81, 117, 101, 114, 121, 0>>

\* buildA2SInfoRequest(challenge); <<>> stands for no challenge.
buildA2SInfoRequest(challenge) == HEADER \o <<A2S_INFO_TYPE>> \o A2S_INFO_PAYLOAD \o challenge

\* buf.indexOf(0x00, offset): -1 when there is none.
IndexOfZero(buf, offset) ==
  LET hits == {i \in offset..(Len(buf) - 1) : buf[i + 1] = 0}
  IN IF hits = {} THEN -1 ELSE CHOOSE i \in hits : \A j \in hits : i <= j

\* readString(buf, offset)
readString(buf, offset) ==
  LET end == IndexOfZero(buf, offset)
  IN IF end = -1 THEN [value |-> <<>>, next |-> Len(buf)]
     ELSE [value |-> SubSeq(buf, offset + 1, end), next |-> end + 1]

\* buf.readUInt8(offset) is in range (it throws a RangeError when not).
InBuffer(buf, offset, n) == offset >= 0 /\ offset + n <= Len(buf)

\* parseA2SInfoResponse(buf): ok = FALSE when a read beyond the buffer throws.
parseA2SInfoResponse(buf) ==
  IF ~InBuffer(buf, 5, 1) THEN [ok |-> FALSE, info |-> <<>>]
  ELSE LET hostname == readString(buf, 6)
           map == readString(buf, hostname.next)
           folder == readString(buf, map.next)
           game == readString(buf, folder.next)
           o == game.next
       IN IF ~InBuffer(buf, o, 2) \/ ~InBuffer(buf, o + 2, 7) THEN [ok |-> FALSE, info |-> <<>>]
          ELSE [ok |-> TRUE,
                info |-> [protocol |-> buf[6],
                          hostname |-> hostname.value,
                          map |-> map.value,
                          folder |-> folder.value,
                          game |-> game.value,
                          appId |-> buf[o + 1] + 256 * buf[o + 2],
                          players |-> buf[o + 3],
                          maxPlayers |-> buf[o + 4],
                          bots |-> buf[o + 5],
                          serverType |-> buf[o + 6],
                          environment |-> buf[o + 7],
                          visibility |-> buf[o + 8] = 1,
                          vac |-> buf[o + 9] = 1,
                          version |-> readString(buf, o + 9).value]]

\* The state right after queryA2SInfo(host, port, timeoutMs) returned its promise: the
\* socket is made, the timer armed and the first request sent.
NewQuery ==
  [socket |-> "open", settled |-> FALSE, timer |-> TRUE, st |-> "pending", err |-> "",
   value |-> <<>>, sent |-> <<buildA2SInfoRequest(<<>>)>>, replies |-> <<>>, thrown |-> FALSE]

\* socket.close(): throws ERR_SOCKET_DGRAM_NOT_RUNNING on a socket that is closed.
socketClose(q) ==
  IF q.socket = "open" THEN [q EXCEPT !.socket = "closed"] ELSE [q EXCEPT !.thrown = TRUE]

\* socket.send(packet, 0, packet.length, port, host)
socketSend(q, packet) ==
  IF q.socket = "open" THEN [q EXCEPT !.sent = Append(@, packet)] ELSE [q EXCEPT !.thrown = TRUE]

\* resolve / reject of the promise of the call.
a2sResolve(q, info) == IF q.st = "pending" THEN [q EXCEPT !.st = "resolved", !.value = info] ELSE q
a2sReject(q, err) == IF q.st = "pending" THEN [q EXCEPT !.st = "rejected", !.err = err] ELSE q

\* cleanup(): clearTimeout(timer); socket.close()
cleanup(q) == socketClose([q EXCEPT !.timer = FALSE])

\* A variant of the timer callback that rejects without closing the socket.
onA2STimerLeavingSocket(q) ==
  LET q0 == [q EXCEPT !.timer = FALSE]
  IN IF ~q0.settled THEN a2sReject([q0 EXCEPT !.settled = TRUE], "timeout") ELSE q0

\* A variant of the timer callback that closes the socket without rejecting.
onA2STimerSilent(q) ==
  LET q0 == [q EXCEPT !.timer = FALSE]
  IN IF ~q0.settled THEN socketClose([q0 EXCEPT !.settled = TRUE]) ELSE q0

\* The setTimeout callback.
onA2STimer(q) ==
  LET q0 == [q EXCEPT !.timer = FALSE]
  IN IF ~q0.settled
     THEN a2sReject(socketClose([q0 EXCEPT !.settled = TRUE]), "timeout")
     ELSE q0

\* socket.on("error")
onA2SError(q) ==
  IF ~q.settled THEN a2sReject(cleanup([q EXCEPT !.settled = TRUE]), "socket") ELSE q

\* socket.on("message")
onA2SMessage(q, msg) ==
  LET q0 == [q EXCEPT !.replies = Append(@, msg)]
  IN IF Len(msg) < 5 THEN q0
     ELSE IF msg[5] = S2C_CHALLENGE
     THEN IF Len(msg) < 9 THEN q0
          ELSE socketSend(q0, buildA2SInfoRequest(SubSeq(msg, 6, 9)))
     ELSE IF msg[5] = S2A_INFO_SRC
     THEN IF ~q0.settled
          THEN LET q1 == [q0 EXCEPT !.settled = TRUE]
                   r == parseA2SInfoResponse(msg)
                   q2 == cleanup(q1)
               IN IF r.ok
                  \* an exception of cleanup() in the try block leads to the catch block,
                  \* whose own cleanup() throws out of the handler
                  THEN IF q2.thrown THEN cleanup(q2) ELSE a2sResolve(q2, r.info)
                  ELSE IF q2.thrown THEN q2 ELSE a2sReject(q2, "parse")
          ELSE q0
     ELSE q0

\* The datagrams a peer may send: too short; a Challenge too short to hold a token;
\* Challenges with two tokens; an Info reply (protocol 17, hostname "A", appId 730,
\* 1 of 10 players, dedicated, Linux, VAC, version "1"); an Info reply cut after the
\* hostname; a reply of another type.
TooShort == <<255, 255, 255, 255>>
ShortChallenge == HEADER \o <<S2C_CHALLENGE, 1, 2>>
Challenges == {HEADER \o <<S2C_CHALLENGE>> \o t : t \in {<<1, 2, 3, 4>>, <<5, 6, 7, 8>>}}
InfoReply ==
  HEADER \o <<S2A_INFO_SRC, 17, 65, 0, 0, 0, 0, 218, 2, 1, 10, 0, 100, 108, 0, 1, 49, 0>>
CutInfoReply == HEADER \o <<S2A_INFO_SRC, 17, 65, 0>>
OtherReply == HEADER \o <<68>>
A2SDatagrams == {TooShort, ShortChallenge, InfoReply, CutInfoReply, OtherReply} \cup Challenges

NotA2S ==
  UNCHANGED <<clients, sockets, promises, session, logReceiver, events, stream, fed, handled, recv, parsed, browser>>

A2SReply ==
  /\ a2s.socket = "open"
  /\ Len(a2s.replies) < MaxReplies
  /\ \E msg \in A2SDatagrams : a2s' = onA2SMessage(a2s, msg)
  /\ NotA2S

A2SSocketError ==
  /\ a2s.socket = "open"
  /\ a2s' = onA2SError(a2s)
  /\ NotA2S

A2STimer ==
  /\ a2s.timer
  /\ a2s' = onA2STimer(a2s)
  /\ NotA2S

InitA2S ==
  /\ clients = <<>>
  /\ sockets = <<>>
  /\ promises = <<>>
  /\ session = NoSession
  /\ logReceiver = [listening |-> FALSE, listeners |-> {}]
  /\ events = <<>>
  /\ stream = [packets |-> <<>>, bytes |-> <<>>]
  /\ fed = 0
  /\ handled = <<>>
  /\ a2s = NewQuery
  /\ recv = NoReceiver
  /\ parsed = NoLine
  /\ browser = NoView

NextA2S == A2SReply \/ A2SSocketError \/ A2STimer

SpecA2S == InitA2S /\ [][NextA2S]_vars

\* SpecA2S with a timer that fires.
SpecA2SFair == SpecA2S /\ WF_vars(A2STimer)

----------------------------------------------------------------------------
(* SpecLog: one LogReceiver, its start() and stop() calls, the dgram sockets they make,
   the listeners registered on it and the datagrams its sockets receive. *)

\* How many dgram sockets of the receiver may be open at a time.
MaxLogSockets == 2
\* How many listeners may register for "log" (one per browser session).
MaxSubscribers == 2

LogPorts == {9001, 9002}

\* buf.toString("utf8") of bytes that are ASCII or 0xFF: a byte that cannot occur in UTF-8
\* decodes to U+FFFD.
Utf8Decode(bytes) == [i \in 1..Len(bytes) |-> IF bytes[i] < 128 THEN bytes[i] ELSE 65533]

OOB == <<255, 255, 255, 255>>
LogTag == <<108, 111, 103>>

\* A variant of the header handling that skips up to the first NUL after the prefix, or 8 bytes.
MessageTextToFirstNul(buf) ==
  IF Len(buf) > 8 /\ SubSeq(buf, 1, 4) = OOB
  THEN LET nuls == {i \in 5..Len(buf) : buf[i] = 0}
           offset == IF nuls # {} THEN CHOOSE i \in nuls : \A j \in nuls : i <= j ELSE 8
       IN Utf8Decode(Drop(buf, offset))
  ELSE Utf8Decode(buf)

\* The first half of handleMessage: the text of a datagram, after its out-of-band header.
MessageText(buf) ==
  IF Len(buf) > 4 /\ SubSeq(buf, 1, 4) = OOB
  THEN LET offset == IF Len(buf) > 4 + 3 /\ AsciiSlice(buf, 4, 4 + 3) = LogTag
                     THEN IF Len(buf) > 7 /\ buf[7 + 1] = 0 THEN 8 ELSE 7
                     ELSE 8
       IN Utf8Decode(Drop(buf, IF offset < Len(buf) THEN offset ELSE Len(buf)))
  ELSE Utf8Decode(buf)

\* text.split("\n"): the pieces between newlines, one more than there are newlines.
RECURSIVE Split(_)
Split(text) ==
  LET nl == {i \in 1..Len(text) : text[i] = 10}
  IN IF nl = {} THEN <<text>>
     ELSE LET i == CHOOSE x \in nl : \A y \in nl : x <= y
          IN <<SubSeq(text, 1, i - 1)>> \o Split(Drop(text, i))

\* The code units String.prototype.trim removes, among those of the datagrams.
IsWhiteSpace(c) == c \in {9, 10, 11, 12, 13, 32}

RECURSIVE TrimStart(_)
TrimStart(l) == IF l # <<>> /\ IsWhiteSpace(Head(l)) THEN TrimStart(Tail(l)) ELSE l

RECURSIVE TrimEnd(_)
TrimEnd(l) == IF l # <<>> /\ IsWhiteSpace(l[Len(l)]) THEN TrimEnd(SubSeq(l, 1, Len(l) - 1)) ELSE l

Trim(l) == TrimEnd(TrimStart(l))

RECURSIVE Filter(_)
\* .filter((l) => l.trim().length > 0)
Filter(ls) ==
  IF ls = <<>> THEN <<>>
  ELSE IF Len(Trim(Head(ls))) > 0 THEN <<Head(ls)>> \o Filter(Tail(ls)) ELSE Filter(Tail(ls))

\* parseLogLine(raw), as far as its raw field: the trimmed line.
parseLogLine(raw) == [raw |-> Trim(raw)]

\* this.emit("log", msg): the listeners are called in registration order.
emitLog(r, msg) ==
  [r EXCEPT !.last[1].delivered =
     @ \o [i \in 1..Len(r.logSubs) |-> [to |-> r.logSubs[i], msg |-> msg]]]

RECURSIVE EmitLines(_, _, _)
\* The for loop of handleMessage.
EmitLines(r, lines, rinfo) ==
  IF lines = <<>> THEN r
  ELSE EmitLines(emitLog(r, [sourceIp |-> rinfo.address, sourcePort |-> rinfo.port,
                             event |-> parseLogLine(Head(lines))]),
                 Tail(lines), rinfo)

\* A variant of handleMessage that does not discard the blank lines.
LogReceiver_handleMessageAllLines(r, buf, rinfo) ==
  EmitLines([r EXCEPT !.last = <<[buf |-> buf, rinfo |-> rinfo, delivered |-> <<>>]>>],
            Split(MessageText(buf)), rinfo)

\* LogReceiver.handleMessage(buf, rinfo)
LogReceiver_handleMessage(r, buf, rinfo) ==
  EmitLines([r EXCEPT !.last = <<[buf |-> buf, rinfo |-> rinfo, delivered |-> <<>>]>>],
            Filter(Split(MessageText(buf))), rinfo)

\* The closed sockets: nothing refers to them, and a new socket takes the place of one.
ClosedLogSockets(r) == {i \in 1..Len(r.socks) : r.socks[i].st = "closed"}

\* LogReceiver.start(port), up to socket.bind: the new socket is bound later.  A socket
\* has the port it is binding or bound to; a socket that failed to bind or is closed has none.
start(r, port) ==
  LET socket == [st |-> "binding", port |-> port, start |-> "pending"]
  IN IF r.socket # 0 THEN r
     ELSE IF ClosedLogSockets(r) # {}
     THEN [r EXCEPT !.socks[CHOOSE i \in ClosedLogSockets(r) : \A j \in ClosedLogSockets(r) : i <= j] = socket]
     ELSE [r EXCEPT !.socks = Append(@, socket)]

\* The callback of socket.bind of socket s.
onBound(r, s) ==
  [r EXCEPT !.port = r.socks[s].port,
            !.socket = s,
            !.socks[s].st = "bound",
            !.socks[s].start = "resolved"]

\* The 'error' listeners of socket s, in the order start() registered them: the one that
\* re-emits on the receiver, then reject.  emit("error") throws when the receiver has no
\* 'error' listener, and the listeners after the throwing one are not called.
onLogSocketError(r, s) ==
  LET r0 == IF r.socks[s].st = "binding"
            THEN [r EXCEPT !.socks[s].st = "failed", !.socks[s].port = 0]
            ELSE r
  IN IF ~r0.errSubs THEN [r0 EXCEPT !.thrown = TRUE]
     ELSE [r0 EXCEPT !.notified = TRUE,
                     !.socks[s].start = IF @ = "pending" THEN "rejected" ELSE @]

\* LogReceiver.stop()
stop(r) ==
  IF r.socket # 0
  THEN [r EXCEPT !.socks[r.socket] = [st |-> "closed", port |-> 0, start |-> "resolved"],
                 !.socket = 0, !.port = 0]
  ELSE r

\* receiver.on("log", l)
onLog(r, l) == [r EXCEPT !.logSubs = Append(@, l)]

\* A variant of removeListener that removes every "log" listener.
removeAllLogListeners(r, l) == [r EXCEPT !.logSubs = <<>>]

\* receiver.removeListener("log", l)
removeLogListener(r, l) ==
  [r EXCEPT !.logSubs = SelectSeq(@, LAMBDA x : x # l)]

\* The datagrams.  Text alone: nothing, "A", "A\nB", "A\n\n B \n", " \n\t".
PlainDatagrams ==
  {<<>>, <<65>>, <<65, 10, 66>>, <<65, 10, 10, 32, 66, 32, 10>>, <<32, 10, 9>>}

\* With the header FF FF FF FF "log" and NUL or no NUL: nothing else, "A", "A\nB".
HeaderDatagrams ==
  {OOB \o LogTag \o nul \o t : nul \in {<<>>, <<0>>}, t \in {<<>>, <<65>>, <<65, 10, 66>>}}

\* The prefix alone, with one or four other bytes and "A", and three bytes of 0xFF and "A".
OtherDatagrams ==
  {OOB, OOB \o <<1>>, OOB \o <<1, 2, 3, 4, 65>>, <<255, 255, 255, 65>>}

LogDatagrams == PlainDatagrams \cup HeaderDatagrams \cup OtherDatagrams

RemoteInfos == {[address |-> 1, port |-> 27015], [address |-> 2, port |-> 27016]}

NotRecv ==
  UNCHANGED <<clients, sockets, promises, session, logReceiver, events, stream, fed, handled, a2s, parsed, browser>>

\* The process is running: no exception has escaped a handler.
Running == ~recv.thrown

\* The state after a handler that delivered no log notification.
Quiet(r) == [r EXCEPT !.last = <<>>]

LogStart ==
  /\ Running
  /\ recv.socket # 0 \/ ClosedLogSockets(recv) # {} \/ Len(recv.socks) < MaxLogSockets
  /\ \E port \in LogPorts : recv' = Quiet(start(recv, port))
  /\ NotRecv

\* bind succeeds when no other open socket holds the port.
LogBound ==
  /\ Running
  /\ \E s \in 1..Len(recv.socks) :
       /\ recv.socks[s].st = "binding"
       /\ \A o \in 1..Len(recv.socks) :
            recv.socks[o].st = "bound" => recv.socks[o].port # recv.socks[s].port
       /\ recv' = Quiet(onBound(recv, s))
  /\ NotRecv

\* An 'error' event of a socket that is binding (the bind fails) or bound.
LogSocketError ==
  /\ Running
  /\ \E s \in 1..Len(recv.socks) :
       /\ recv.socks[s].st \in {"binding", "bound"}
       /\ recv' = Quiet(onLogSocketError(recv, s))
  /\ NotRecv

LogStop ==
  /\ Running
  /\ recv' = Quiet(stop(recv))
  /\ NotRecv

\* A 'message' event of a bound socket.
LogMessage ==
  /\ Running
  /\ \E s \in 1..Len(recv.socks) : recv.socks[s].st = "bound"
  /\ \E buf \in LogDatagrams, rinfo \in RemoteInfos :
       recv' = LogReceiver_handleMessage(recv, buf, rinfo)
  /\ NotRecv

LogSubscribe ==
  /\ Running
  /\ \E l \in 1..MaxSubscribers :
       /\ \A i \in 1..Len(recv.logSubs) : recv.logSubs[i] # l
       /\ recv' = Quiet(onLog(recv, l))
  /\ NotRecv

LogUnsubscribe ==
  /\ Running
  /\ \E i \in 1..Len(recv.logSubs) : recv' = Quiet(removeLogListener(recv, recv.logSubs[i]))
  /\ NotRecv

\* receiver.on("error", ...)
LogOnError ==
  /\ Running
  /\ ~recv.errSubs
  /\ recv' = Quiet([recv EXCEPT !.errSubs = TRUE])
  /\ NotRecv

InitLog ==
  /\ clients = <<>>
  /\ sockets = <<>>
  /\ promises = <<>>
  /\ session = NoSession
  /\ logReceiver = [listening |-> FALSE, listeners |-> {}]
  /\ events = <<>>
  /\ stream = [packets |-> <<>>, bytes |-> <<>>]
  /\ fed = 0
  /\ handled = <<>>
  /\ a2s = NoQuery
  /\ recv = NoReceiver
  /\ parsed = NoLine
  /\ browser = NoView

NextLog ==
  \/ LogStart \/ LogBound \/ LogSocketError \/ LogStop
  \/ LogMessage \/ LogSubscribe \/ LogUnsubscribe \/ LogOnError

SpecLog == InitLog /\ [][NextLog]_vars

\* SpecLogStarted: the receiver after `await receiver.start(port)`, as main() leaves it:
\* the sessions register and remove their listeners while datagrams arrive.
InitLogStarted ==
  /\ clients = <<>>
  /\ sockets = <<>>
  /\ promises = <<>>
  /\ session = NoSession
  /\ logReceiver = [listening |-> FALSE, listeners |-> {}]
  /\ events = <<>>
  /\ stream = [packets |-> <<>>, bytes |-> <<>>]
  /\ fed = 0
  /\ handled = <<>>
  /\ a2s = NoQuery
  /\ recv \in {Quiet(onBound(start(NoReceiver, port), 1)) : port \in LogPorts}
  /\ parsed = NoLine
  /\ browser = NoView

NextLogStarted == LogMessage \/ LogSubscribe \/ LogUnsubscribe

SpecLogStarted == InitLogStarted /\ [][NextLogStarted]_vars

----------------------------------------------------------------------------
(* LogLineParser: parseLogLine and its regular expressions.  A text is a sequence of
   UTF-16 code units; positions are 0-based as in the source.  A regular expression is a
   sequence of items, matched as the backtracking matcher of the language matches them:
   at the leftmost start that gives a match, a greedy item taking as many characters as
   the rest of the expression allows and a lazy one as few. *)

Item(k, cls, text, min, max, lazy, alts) ==
  [k |-> k, cls |-> cls, text |-> text, min |-> min, max |-> max, lazy |-> lazy,
   g |-> 0, alts |-> alts]

\* An item that matches min to max (-1: any number of) characters of a class: "digit"
\* (\d), "space" (\s), "dot" (. without the s flag) or "any" (. with it).
Rep(cls, min, max, lazy) == <<Item("set", cls, <<>>, min, max, lazy, <<>>)>>

\* A literal text.
Lit(text) == <<Item("lit", "", text, 0, 0, FALSE, <<>>)>>

\* An alternation of literal texts, tried in order.
Alt(alts) == <<Item("alt", "", <<>>, 0, 0, FALSE, alts)>>

\* ( and ) of capture group g around several items, and capture group g around one item.
Open(g) == <<[Item("open", "", <<>>, 0, 0, FALSE, <<>>) EXCEPT !.g = g]>>
Close(g) == <<[Item("close", "", <<>>, 0, 0, FALSE, <<>>) EXCEPT !.g = g]>>
Cap(g, item) == <<[item[1] EXCEPT !.g = g]>>

Digits(n) == Rep("digit", n, n, FALSE)
SomeDigits == Rep("digit", 1, -1, FALSE)
Spaces == Rep("space", 1, -1, FALSE)
OptSpaces == Rep("space", 0, -1, FALSE)
\* .+? and .*? and .* and, with the s flag, .*
LazySome == Rep("dot", 1, -1, TRUE)
LazyAny == Rep("dot", 0, -1, TRUE)
GreedyAny == Rep("dot", 0, -1, FALSE)
GreedyAll == Rep("any", 0, -1, FALSE)

\* Line terminators, which . does not match.
IsLineTerminator(c) == c \in {10, 13, 8232, 8233}

InClass(it, c) ==
  CASE it.cls = "digit" -> c \in 48..57
    [] it.cls = "space" -> IsWhiteSpace(c)
    [] it.cls = "dot" -> ~IsLineTerminator(c)
    [] OTHER -> TRUE

NoMatch == [ok |-> FALSE, end |-> 0, caps |-> <<>>]
\* Five capture groups, none of which has taken part in the match.
NoCaps == [g \in 1..5 |-> [s |-> -1, e |-> -1]]

HasAt(text, pos, lit) ==
  /\ pos + Len(lit) <= Len(text)
  /\ SubSeq(text, pos + 1, pos + Len(lit)) = lit

\* How many characters from pos on are of the class of an item.
RunLength(it, text, pos) ==
  LET other == {j \in (pos + 1)..Len(text) : ~InClass(it, text[j])}
  IN IF other = {} THEN Len(text) - pos
     ELSE (CHOOSE j \in other : \A x \in other : j <= x) - pos - 1

\* The captures after group g, if there is one, matched [s, e).
Captured(caps, g, s, e) == IF g = 0 THEN caps ELSE [caps EXCEPT ![g] = [s |-> s, e |-> e]]

\* The match of the preferred one of the choices c that lead to a match m of the rest:
\* the first of them, or for a greedy item the last.
Preferred(results, greedy) ==
  LET good == {r \in results : r.m.ok}
  IN IF good = {} THEN NoMatch
     ELSE (CHOOSE r \in good : \A x \in good : IF greedy THEN r.c >= x.c ELSE r.c <= x.c).m

RECURSIVE MatchFrom(_, _, _, _, _)
\* The match of items i.. at pos.
MatchFrom(items, i, text, pos, caps) ==
  IF i > Len(items) THEN [ok |-> TRUE, end |-> pos, caps |-> caps]
  ELSE LET it == items[i]
       IN CASE it.k = "lit" ->
                 IF HasAt(text, pos, it.text)
                 THEN MatchFrom(items, i + 1, text, pos + Len(it.text), caps)
                 ELSE NoMatch
            [] it.k = "open" ->
                 MatchFrom(items, i + 1, text, pos, [caps EXCEPT ![it.g].s = pos])
            [] it.k = "close" ->
                 MatchFrom(items, i + 1, text, pos, [caps EXCEPT ![it.g].e = pos])
            [] it.k = "alt" ->
                 LET choices == {a \in 1..Len(it.alts) : HasAt(text, pos, it.alts[a])}
                     results ==
                       {[c |-> a,
                         m |-> MatchFrom(items, i + 1, text, pos + Len(it.alts[a]),
                                         Captured(caps, it.g, pos, pos + Len(it.alts[a])))] :
                          a \in choices}
                 IN Preferred(results, FALSE)
            [] OTHER ->
                 LET run == RunLength(it, text, pos)
                     most == IF it.max # -1 /\ it.max < run THEN it.max ELSE run
                     results ==
                       {[c |-> n,
                         m |-> MatchFrom(items, i + 1, text, pos + n,
                                         Captured(caps, it.g, pos, pos + n))] :
                          n \in it.min..most}
                 IN Preferred(results, ~it.lazy)

\* text.match(re) for an expression without the g flag: the match at the first index that
\* has one, or none.  An expression that begins with ^ matches at index 0 only.
Exec(re, text) ==
  LET indexes == IF re.anchored THEN {0} ELSE 0..Len(text)
      results == {[c |-> index, m |-> MatchFrom(re.items, 1, text, index, NoCaps)] :
                    index \in indexes}
  IN Preferred(results, FALSE)

\* re.test(text)
Test(re, text) == Exec(re, text).ok

\* m[g] of a match m of text.
Group(text, m, g) == SubSeq(text, m.caps[g].s + 1, m.caps[g].e)

\* /^L\s+(\d{2}\/\d{2}\/\d{4}\s+-\s+\d{2}:\d{2}:\d{2}):\s*(.*)/s
TIMESTAMP_RE ==
  [anchored |-> TRUE,
   items |->
     Lit(<<76>>) \o  \* L
     Spaces \o
     Open(1) \o
     Digits(2) \o
     Lit(<<47>>) \o  \* /
     Digits(2) \o
     Lit(<<47>>) \o  \* /
     Digits(4) \o
     Spaces \o
     Lit(<<45>>) \o  \* -
     Spaces \o
     Digits(2) \o
     Lit(<<58>>) \o  \* :
     Digits(2) \o
     Lit(<<58>>) \o  \* :
     Digits(2) \o
     Close(1) \o
     Lit(<<58>>) \o  \* :
     OptSpaces \o
     Cap(2, GreedyAll)]

\* /killed\s+".*?"\s+.*?with\s+"/
KILL_GUARD_RE ==
  [anchored |-> FALSE,
   items |->
     Lit(<<107, 105, 108, 108, 101, 100>>) \o  \* killed
     Spaces \o
     Lit(<<34>>) \o  \* "
     LazyAny \o
     Lit(<<34>>) \o  \* "
     Spaces \o
     LazyAny \o
     Lit(<<119, 105, 116, 104>>) \o  \* with
     Spaces \o
     Lit(<<34>>)]  \* "

\* /"(.+?)<\d+><.+?><(.+?)>".*killed\s+"(.+?)<\d+><.+?><(.+?)>".*with\s+"(.+?)"/
KILL_RE ==
  [anchored |-> FALSE,
   items |->
     Lit(<<34>>) \o  \* "
     Cap(1, LazySome) \o
     Lit(<<60>>) \o  \* <
     SomeDigits \o
     Lit(<<62, 60>>) \o  \* ><
     LazySome \o
     Lit(<<62, 60>>) \o  \* ><
     Cap(2, LazySome) \o
     Lit(<<62, 34>>) \o  \* >"
     GreedyAny \o
     Lit(<<107, 105, 108, 108, 101, 100>>) \o  \* killed
     Spaces \o
     Lit(<<34>>) \o  \* "
     Cap(3, LazySome) \o
     Lit(<<60>>) \o  \* <
     SomeDigits \o
     Lit(<<62, 60>>) \o  \* ><
     LazySome \o
     Lit(<<62, 60>>) \o  \* ><
     Cap(4, LazySome) \o
     Lit(<<62, 34>>) \o  \* >"
     GreedyAny \o
     Lit(<<119, 105, 116, 104>>) \o  \* with
     Spaces \o
     Lit(<<34>>) \o  \* "
     Cap(5, LazySome) \o
     Lit(<<34>>)]  \* "

\* /\(headshot\)/
HEADSHOT_RE ==
  [anchored |-> FALSE,
   items |->
     Lit(<<40, 104, 101, 97, 100, 115, 104, 111, 116, 41>>)]  \* (headshot)

\* The alternatives of CHAT_RE: say_team, say.
ChatTypes == <<<<115, 97, 121, 95, 116, 101, 97, 109>>, <<115, 97, 121>>>>

\* /"(.+?)<\d+><.+?><(.*?)>"\s+(say_team|say)\s+"(.*)"/
CHAT_RE ==
  [anchored |-> FALSE,
   items |->
     Lit(<<34>>) \o  \* "
     Cap(1, LazySome) \o
     Lit(<<60>>) \o  \* <
     SomeDigits \o
     Lit(<<62, 60>>) \o  \* ><
     LazySome \o
     Lit(<<62, 60>>) \o  \* ><
     Cap(2, LazyAny) \o
     Lit(<<62, 34>>) \o  \* >"
     Spaces \o
     Cap(3, Alt(ChatTypes)) \o
     Spaces \o
     Lit(<<34>>) \o  \* "
     Cap(4, GreedyAny) \o
     Lit(<<34>>)]  \* "

\* /"(.+?)<(\d+)><(.+?)><.*>"\s+connected,\s+address\s+"(.+?)"/
CONNECT_RE ==
  [anchored |-> FALSE,
   items |->
     Lit(<<34>>) \o  \* "
     Cap(1, LazySome) \o
     Lit(<<60>>) \o  \* <
     Cap(2, SomeDigits) \o
     Lit(<<62, 60>>) \o  \* ><
     Cap(3, LazySome) \o
     Lit(<<62, 60>>) \o  \* ><
     GreedyAny \o
     Lit(<<62, 34>>) \o  \* >"
     Spaces \o
     Lit(<<99, 111, 110, 110, 101, 99, 116, 101, 100, 44>>) \o  \* connected,
     Spaces \o
     Lit(<<97, 100, 100, 114, 101, 115, 115>>) \o  \* address
     Spaces \o
     Lit(<<34>>) \o  \* "
     Cap(4, LazySome) \o
     Lit(<<34>>)]  \* "

\* /"(.+?)<(\d+)><(.+?)><.*>"\s+entered the game/
ENTER_RE ==
  [anchored |-> FALSE,
   items |->
     Lit(<<34>>) \o  \* "
     Cap(1, LazySome) \o
     Lit(<<60>>) \o  \* <
     Cap(2, SomeDigits) \o
     Lit(<<62, 60>>) \o  \* ><
     Cap(3, LazySome) \o
     Lit(<<62, 60>>) \o  \* ><
     GreedyAny \o
     Lit(<<62, 34>>) \o  \* >"
     Spaces \o
     Lit(<<101, 110, 116, 101, 114, 101, 100, 32, 116, 104, 101, 32, 103, 97, 109, 101>>)]  \* entered the game

\* /"(.+?)<(\d+)><(.+?)><.*>"\s+disconnected\s*\(reason\s+"(.+?)"\)/
DISCONNECT_RE ==
  [anchored |-> FALSE,
   items |->
     Lit(<<34>>) \o  \* "
     Cap(1, LazySome) \o
     Lit(<<60>>) \o  \* <
     Cap(2, SomeDigits) \o
     Lit(<<62, 60>>) \o  \* ><
     Cap(3, LazySome) \o
     Lit(<<62, 60>>) \o  \* ><
     GreedyAny \o
     Lit(<<62, 34>>) \o  \* >"
     Spaces \o
     Lit(<<100, 105, 115, 99, 111, 110, 110, 101, 99, 116, 101, 100>>) \o  \* disconnected
     OptSpaces \o
     Lit(<<40, 114, 101, 97, 115, 111, 110>>) \o  \* (reason
     Spaces \o
     Lit(<<34>>) \o  \* "
     Cap(4, LazySome) \o
     Lit(<<34, 41>>)]  \* ")

\* /World triggered "Round_Start"/
ROUND_START_RE ==
  [anchored |-> FALSE,
   items |->
     Lit(<<87, 111, 114, 108, 100, 32, 116, 114, 105, 103, 103, 101, 114, 101, 100, 32, 34, 82, 111, 117, 110, 100, 95, 83, 116, 97, 114, 116, 34>>)]  \* World triggered "Round_Start"

\* /World triggered "Round_End"/
ROUND_END_RE ==
  [anchored |-> FALSE,
   items |->
     Lit(<<87, 111, 114, 108, 100, 32, 116, 114, 105, 103, 103, 101, 114, 101, 100, 32, 34, 82, 111, 117, 110, 100, 95, 69, 110, 100, 34>>)]  \* World triggered "Round_End"

\* /Team "(.+?)"\s+triggered\s+"(.+?)"/
TEAM_WIN_RE ==
  [anchored |-> FALSE,
   items |->
     Lit(<<84, 101, 97, 109, 32, 34>>) \o  \* Team "
     Cap(1, LazySome) \o
     Lit(<<34>>) \o  \* "
     Spaces \o
     Lit(<<116, 114, 105, 103, 103, 101, 114, 101, 100>>) \o  \* triggered
     Spaces \o
     Lit(<<34>>) \o  \* "
     Cap(2, LazySome) \o
     Lit(<<34>>)]  \* "

\* The texts of the messages.
RoundStarted == <<82, 111, 117, 110, 100, 32, 115, 116, 97, 114, 116, 101, 100>>  \* Round started
RoundEnded == <<82, 111, 117, 110, 100, 32, 101, 110, 100, 101, 100>>  \* Round ended

LogEvent(timestamp, category, message, raw) ==
  [timestamp |-> timestamp, category |-> category, message |-> message, raw |-> raw]

\* A variant of the kill rule that does not try KILL_GUARD_RE first.
killMatchWithoutGuard(body) == Exec(KILL_RE, body)

\* if (KILL_GUARD_RE.test(body)) { const killMatch = body.match(KILL_RE); ... }
killMatch(body) == IF Test(KILL_GUARD_RE, body) THEN Exec(KILL_RE, body) ELSE NoMatch

\* parseLogLine(raw): the whole LogEvent.
LogLineParser_parseLogLine(raw) ==
  LET trimmed == Trim(raw)
      tsMatch == Exec(TIMESTAMP_RE, trimmed)
      timestamp == IF tsMatch.ok THEN Group(trimmed, tsMatch, 1) ELSE <<>>
      body == IF tsMatch.ok THEN Group(trimmed, tsMatch, 2) ELSE trimmed
      kill == killMatch(body)
      chatMatch == Exec(CHAT_RE, body)
      connectMatch == Exec(CONNECT_RE, body)
      enterMatch == Exec(ENTER_RE, body)
      disconnectMatch == Exec(DISCONNECT_RE, body)
      teamWinMatch == Exec(TEAM_WIN_RE, body)
  IN IF kill.ok
     THEN LogEvent(timestamp, "kill",
                   Group(body, kill, 1) \o <<32, 91>> \o Group(body, kill, 2) \o <<93, 32, 107, 105, 108, 108, 101, 100, 32>>  \* " [", "] killed "
                     \o Group(body, kill, 3) \o <<32, 91>> \o Group(body, kill, 4) \o <<93, 32, 119, 105, 116, 104, 32>>  \* " [", "] with "
                     \o Group(body, kill, 5)
                     \o (IF Test(HEADSHOT_RE, body) THEN <<32, 40, 104, 101, 97, 100, 115, 104, 111, 116, 41>> ELSE <<>>),  \* " (headshot)"
                   trimmed)
     ELSE IF chatMatch.ok
     THEN LogEvent(timestamp, "chat",
                   (IF Group(body, chatMatch, 3) = ChatTypes[1] THEN <<91, 84, 69, 65, 77, 93, 32>> ELSE <<>>)  \* "[TEAM] "
                     \o Group(body, chatMatch, 1)
                     \o (IF Group(body, chatMatch, 2) # <<>>
                         THEN <<32, 91>> \o Group(body, chatMatch, 2) \o <<93>> ELSE <<>>)  \* " [", "]"
                     \o <<58, 32>> \o Group(body, chatMatch, 4),  \* ": "
                   trimmed)
     ELSE IF connectMatch.ok
     THEN LogEvent(timestamp, "connection",
                   Group(body, connectMatch, 1) \o <<32, 99, 111, 110, 110, 101, 99, 116, 101, 100, 32, 40>>  \* " connected ("
                     \o Group(body, connectMatch, 3) \o <<41, 32, 102, 114, 111, 109, 32>>  \* ") from "
                     \o Group(body, connectMatch, 4),
                   trimmed)
     ELSE IF enterMatch.ok
     THEN LogEvent(timestamp, "connection",
                   Group(body, enterMatch, 1) \o <<32, 101, 110, 116, 101, 114, 101, 100, 32, 116, 104, 101, 32, 103, 97, 109, 101>>,  \* " entered the game"
                   trimmed)
     ELSE IF disconnectMatch.ok
     THEN LogEvent(timestamp, "disconnection",
                   Group(body, disconnectMatch, 1) \o <<32, 100, 105, 115, 99, 111, 110, 110, 101, 99, 116, 101, 100, 32, 40>>  \* " disconnected ("
                     \o Group(body, disconnectMatch, 4) \o <<41>>,  \* ")"
                   trimmed)
     ELSE IF Test(ROUND_START_RE, body) THEN LogEvent(timestamp, "round", RoundStarted, trimmed)
     ELSE IF Test(ROUND_END_RE, body) THEN LogEvent(timestamp, "round", RoundEnded, trimmed)
     ELSE IF teamWinMatch.ok
     THEN LogEvent(timestamp, "round",
                   Group(body, teamWinMatch, 1) \o <<58, 32>> \o Group(body, teamWinMatch, 2),  \* ": "
                   trimmed)
     ELSE LogEvent(timestamp, "other", body, trimmed)

(* SpecParse: parseLogLine called once with a line. *)

\* The timestamp "L 03/01/2024 - 12:34:56: ", and one whose date lacks digits.
Timestamp == <<76, 32, 48, 51, 47, 48, 49, 47, 50, 48, 50, 52, 32, 45, 32, 49, 50, 58, 51, 52, 58, 53, 54, 58, 32>>
ShortDateTimestamp == <<76, 32, 51, 47, 49, 47, 50, 48, 50, 52, 32, 45, 32, 49, 50, 58, 51, 52, 58, 53, 54, 58, 32>>  \* L 3/1/2024 - 12:34:56:

\* The texts after the timestamp.
\* "A<2><S><CT>" [1 2 3] killed "B<3><S><T>" [4 5 6] with "ak47"
KillLine ==
  <<34, 65, 60, 50, 62, 60, 83, 62, 60, 67, 84, 62, 34, 32, 91, 49, 32, 50, 32, 51, 93, 32, 107, 105, 108, 108, 101, 100, 32, 34, 66, 60, 51, 62, 60, 83, 62, 60, 84, 62, 34, 32, 91, 52, 32, 53, 32, 54, 93, 32, 119, 105, 116, 104, 32, 34, 97, 107, 52, 55, 34>>
\* "A<2><S><CT>" [1 2 3] killed "B<3><S><T>" [4 5 6] with "ak47" (headshot)
HeadshotLine ==
  <<34, 65, 60, 50, 62, 60, 83, 62, 60, 67, 84, 62, 34, 32, 91, 49, 32, 50, 32, 51, 93, 32, 107, 105, 108, 108, 101, 100, 32, 34, 66, 60, 51, 62, 60, 83, 62, 60, 84, 62, 34, 32, 91, 52, 32, 53, 32, 54, 93, 32, 119, 105, 116, 104, 32, 34, 97, 107, 52, 55, 34, 32, 40, 104, 101, 97, 100, 115, 104, 111, 116, 41>>
\* killed "B" x with "ak47"
KillGuardOnlyLine ==
  <<107, 105, 108, 108, 101, 100, 32, 34, 66, 34, 32, 120, 32, 119, 105, 116, 104, 32, 34, 97, 107, 52, 55, 34>>
\* "A<2><S><CT>" say "killed "B" x with "k""
KillGuardInChatLine ==
  <<34, 65, 60, 50, 62, 60, 83, 62, 60, 67, 84, 62, 34, 32, 115, 97, 121, 32, 34, 107, 105, 108, 108, 101, 100, 32, 34, 66, 34, 32, 120, 32, 119, 105, 116, 104, 32, 34, 107, 34, 34>>
\* "A<2><S><CT>" say "x" killed "B<3><S><T>" with "ak47"
KillAndChatLine ==
  <<34, 65, 60, 50, 62, 60, 83, 62, 60, 67, 84, 62, 34, 32, 115, 97, 121, 32, 34, 120, 34, 32, 107, 105, 108, 108, 101, 100, 32, 34, 66, 60, 51, 62, 60, 83, 62, 60, 84, 62, 34, 32, 119, 105, 116, 104, 32, 34, 97, 107, 52, 55, 34>>
\* "A<2><S><CT>" killed "B<3><S><T>"with "ak47"
KillWithoutSpaceLine ==
  <<34, 65, 60, 50, 62, 60, 83, 62, 60, 67, 84, 62, 34, 32, 107, 105, 108, 108, 101, 100, 32, 34, 66, 60, 51, 62, 60, 83, 62, 60, 84, 62, 34, 119, 105, 116, 104, 32, 34, 97, 107, 52, 55, 34>>
\* "P<2><S><CT>" say "hi"
SayLine ==
  <<34, 80, 60, 50, 62, 60, 83, 62, 60, 67, 84, 62, 34, 32, 115, 97, 121, 32, 34, 104, 105, 34>>
\* "P<2><S><T>" say_team "go B"
SayTeamLine ==
  <<34, 80, 60, 50, 62, 60, 83, 62, 60, 84, 62, 34, 32, 115, 97, 121, 95, 116, 101, 97, 109, 32, 34, 103, 111, 32, 66, 34>>
\* "P<2><S><>" say "hi"
SayNoTeamLine ==
  <<34, 80, 60, 50, 62, 60, 83, 62, 60, 62, 34, 32, 115, 97, 121, 32, 34, 104, 105, 34>>
\* "P<2><S><CT>" say hi
SayUnquotedLine ==
  <<34, 80, 60, 50, 62, 60, 83, 62, 60, 67, 84, 62, 34, 32, 115, 97, 121, 32, 104, 105>>
\* "P<2><S><CT>" say "World triggered "Round_Start""
SayRoundLine ==
  <<34, 80, 60, 50, 62, 60, 83, 62, 60, 67, 84, 62, 34, 32, 115, 97, 121, 32, 34, 87, 111, 114, 108, 100, 32, 116, 114, 105, 103, 103, 101, 114, 101, 100, 32, 34, 82, 111, 117, 110, 100, 95, 83, 116, 97, 114, 116, 34, 34>>
\* "P<x><S><CT>" say "hi"
SayNoUidLine ==
  <<34, 80, 60, 120, 62, 60, 83, 62, 60, 67, 84, 62, 34, 32, 115, 97, 121, 32, 34, 104, 105, 34>>
\* "P<2><S><>" connected, address "1.2.3.4:5"
ConnectedLine ==
  <<34, 80, 60, 50, 62, 60, 83, 62, 60, 62, 34, 32, 99, 111, 110, 110, 101, 99, 116, 101, 100, 44, 32, 97, 100, 100, 114, 101, 115, 115, 32, 34, 49, 46, 50, 46, 51, 46, 52, 58, 53, 34>>
\* "P<2><S><>" connected, address 1.2.3.4
ConnectedUnquotedLine ==
  <<34, 80, 60, 50, 62, 60, 83, 62, 60, 62, 34, 32, 99, 111, 110, 110, 101, 99, 116, 101, 100, 44, 32, 97, 100, 100, 114, 101, 115, 115, 32, 49, 46, 50, 46, 51, 46, 52>>
\* "P<2><S><>" connected, address "1" "Q<3><S><>" entered the game
ConnectedAndEnteredLine ==
  <<34, 80, 60, 50, 62, 60, 83, 62, 60, 62, 34, 32, 99, 111, 110, 110, 101, 99, 116, 101, 100, 44, 32, 97, 100, 100, 114, 101, 115, 115, 32, 34, 49, 34, 32, 34, 81, 60, 51, 62, 60, 83, 62, 60, 62, 34, 32, 101, 110, 116, 101, 114, 101, 100, 32, 116, 104, 101, 32, 103, 97, 109, 101>>
\* "P<2><S><>" entered the game
EnteredLine ==
  <<34, 80, 60, 50, 62, 60, 83, 62, 60, 62, 34, 32, 101, 110, 116, 101, 114, 101, 100, 32, 116, 104, 101, 32, 103, 97, 109, 101>>
\* "P<2><S><CT>" disconnected (reason "Kick")
DisconnectedLine ==
  <<34, 80, 60, 50, 62, 60, 83, 62, 60, 67, 84, 62, 34, 32, 100, 105, 115, 99, 111, 110, 110, 101, 99, 116, 101, 100, 32, 40, 114, 101, 97, 115, 111, 110, 32, 34, 75, 105, 99, 107, 34, 41>>
\* "P<2><S><CT>" disconnected
DisconnectedNoReasonLine ==
  <<34, 80, 60, 50, 62, 60, 83, 62, 60, 67, 84, 62, 34, 32, 100, 105, 115, 99, 111, 110, 110, 101, 99, 116, 101, 100>>
\* World triggered "Round_Start"
RoundStartLine ==
  <<87, 111, 114, 108, 100, 32, 116, 114, 105, 103, 103, 101, 114, 101, 100, 32, 34, 82, 111, 117, 110, 100, 95, 83, 116, 97, 114, 116, 34>>
\* World triggered "Round_End"
RoundEndLine ==
  <<87, 111, 114, 108, 100, 32, 116, 114, 105, 103, 103, 101, 114, 101, 100, 32, 34, 82, 111, 117, 110, 100, 95, 69, 110, 100, 34>>
\* World triggered "Round_End" World triggered "Round_Start"
RoundEndAndStartLine ==
  <<87, 111, 114, 108, 100, 32, 116, 114, 105, 103, 103, 101, 114, 101, 100, 32, 34, 82, 111, 117, 110, 100, 95, 69, 110, 100, 34, 32, 87, 111, 114, 108, 100, 32, 116, 114, 105, 103, 103, 101, 114, 101, 100, 32, 34, 82, 111, 117, 110, 100, 95, 83, 116, 97, 114, 116, 34>>
\* world triggered "round_start"
RoundLowerCaseLine ==
  <<119, 111, 114, 108, 100, 32, 116, 114, 105, 103, 103, 101, 114, 101, 100, 32, 34, 114, 111, 117, 110, 100, 95, 115, 116, 97, 114, 116, 34>>
\* Team "CT" triggered "Win"
TeamWinLine ==
  <<84, 101, 97, 109, 32, 34, 67, 84, 34, 32, 116, 114, 105, 103, 103, 101, 114, 101, 100, 32, 34, 87, 105, 110, 34>>
\* Team CT triggered "Win"
TeamUnquotedLine ==
  <<84, 101, 97, 109, 32, 67, 84, 32, 116, 114, 105, 103, 103, 101, 114, 101, 100, 32, 34, 87, 105, 110, 34>>
\* server_cvar: "mp" "1"
CvarLine ==
  <<115, 101, 114, 118, 101, 114, 95, 99, 118, 97, 114, 58, 32, 34, 109, 112, 34, 32, 34, 49, 34>>
\* (nothing)
EmptyLine ==
  <<>>

LineBodies ==
  {KillLine, HeadshotLine, KillGuardOnlyLine, KillGuardInChatLine,
   KillAndChatLine, KillWithoutSpaceLine, SayLine, SayTeamLine,
   SayNoTeamLine, SayUnquotedLine, SayRoundLine, SayNoUidLine,
   ConnectedLine, ConnectedUnquotedLine, ConnectedAndEnteredLine, EnteredLine,
   DisconnectedLine, DisconnectedNoReasonLine, RoundStartLine, RoundEndLine,
   RoundEndAndStartLine, RoundLowerCaseLine, TeamWinLine, TeamUnquotedLine,
   CvarLine, EmptyLine}

\* A line: a text alone, after a timestamp, after the malformed timestamp, and after a
\* timestamp with white space around the line.
LogLines ==
  {prefix \o b : prefix \in {<<>>, Timestamp, ShortDateTimestamp}, b \in LineBodies}
    \cup {<<32, 9>> \o Timestamp \o b \o <<32>> : b \in LineBodies}

NotParsed ==
  UNCHANGED <<clients, sockets, promises, session, logReceiver, events, stream, fed, handled, a2s, recv, browser>>

ParseLine ==
  /\ parsed.events = <<>>
  /\ parsed' = [parsed EXCEPT !.events = <<LogLineParser_parseLogLine(parsed.line)>>]
  /\ NotParsed

InitParse ==
  /\ clients = <<>>
  /\ sockets = <<>>
  /\ promises = <<>>
  /\ session = NoSession
  /\ logReceiver = [listening |-> FALSE, listeners |-> {}]
  /\ events = <<>>
  /\ stream = [packets |-> <<>>, bytes |-> <<>>]
  /\ fed = 0
  /\ handled = <<>>
  /\ a2s = NoQuery
  /\ recv = NoReceiver
  /\ parsed \in {[line |-> l, events |-> <<>>] : l \in LogLines}
  /\ browser = NoView

NextParse == ParseLine

SpecParse == InitParse /\ [][NextParse]_vars


----------------------------------------------------------------------------
(* Vocabulary of the properties. *)

Live(s) == sockets[s].st \in {"connecting", "open"}
LiveNext(s) == sockets'[s].st \in {"connecting", "open"}

\* The sockets of client c that were not destroyed.
LiveSockets(c) == {s \in 1..Len(sockets) : sockets[s].owner = c /\ Live(s)}

\* The events of the last handler that match a pattern.
Sends(k) == {i \in 1..Len(events) : events[i].t = "send" /\ events[i].k = k}

\* A gateway handler is suspended at its await.
InFlight(h) == \E p \in 1..Len(promises) : promises[p].h = h /\ promises[p].st = "pending"

----------------------------------------------------------------------------
(* C1: after the WebSocket of a session closed while the session held an authenticated
   RconClient and a registered log listener, no listener of the session is registered, no
   log_event is sent any more and that client has no live socket, whatever handlers of the
   session were suspended at the close. *)
C1_TeardownStopsLogsAndSocket ==
  (~session.open /\ session.closedWith.ready /\ session.closedWith.listener # 0)
    => /\ logReceiver.listeners = {}
       /\ Sends("log_event") = {}
       /\ LiveSockets(session.closedWith.rcon) = {}

\* The session was closed with a ready client and a listener while a command or an
\* enable_logs handler was still awaiting its response.
C1_Witness ==
  /\ ~session.open /\ session.closedWith.ready /\ session.closedWith.listener # 0
  /\ InFlight("enable_logs") \/ InFlight("command")

----------------------------------------------------------------------------
(* C7: for a stream of valid packets cut into reads at any bytes, handleData has called
   handlePacket with exactly the packets that arrived whole so far, once each and in
   stream order, has consumed size + 4 bytes for each, and holds the incomplete tail. *)
PacketSize(pk) == 4 + 4 + Len(pk.body) + 1 + 1

RECURSIVE WholePackets(_, _)
\* How many of the packets ps fit in the first n bytes of their stream.
WholePackets(ps, n) ==
  IF ps = <<>> \/ PacketSize(Head(ps)) + 4 > n THEN 0
  ELSE 1 + WholePackets(Tail(ps), n - (PacketSize(Head(ps)) + 4))

RECURSIVE ConsumedBytes(_, _)
ConsumedBytes(ps, k) ==
  IF k = 0 THEN 0 ELSE PacketSize(Head(ps)) + 4 + ConsumedBytes(Tail(ps), k - 1)

C7_FramingInStreamOrder ==
  stream.packets # <<>> =>
    LET k == WholePackets(stream.packets, fed)
    IN /\ handled = SubSeq(stream.packets, 1, k)
       /\ clients[1].responseBuffer =
            SubSeq(stream.bytes, ConsumedBytes(stream.packets, k) + 1, fed)
       /\ Len(clients[1].responseBuffer) < 4
            \/ Len(clients[1].responseBuffer) < PacketSize(stream.packets[k + 1]) + 4
       /\ \A i \in 1..Len(events) : events[i].t = "emit" /\ events[i].k = "response"

\* One packet was dispatched and a part of the second one is buffered.
C7_Witness ==
  /\ Len(stream.packets) = 2 /\ Len(handled) = 1
  /\ clients[1].responseBuffer # <<>>
  /\ fed > ConsumedBytes(stream.packets, 1) + 4

----------------------------------------------------------------------------
(* C8: connect() on a client that has a socket destroys that socket and leaves the pending
   table empty, the request-id counter at 0 and the receive buffer empty, with the new
   socket the client's only live one; no client ever has two live sockets. *)
C8_ConnectStep ==
  Len(sockets') > Len(sockets) =>
    LET c == sockets'[Len(sockets')].owner
    IN c <= Len(clients) =>
         /\ clients[c].socket # 0 => ~LiveNext(clients[c].socket)
         /\ clients'[c].socket = Len(sockets')
         /\ clients'[c].pendingRequests = <<>>
         /\ clients'[c].requestId = 0
         /\ clients'[c].responseBuffer = <<>>
         /\ ~clients'[c].authenticated

C8_OneLiveSocketPerClient ==
  /\ [](\A c \in 1..Len(clients) : Cardinality(LiveSockets(c)) <= 1)
  /\ [][C8_ConnectStep]_vars

\* A second connect() was made while the first socket was live and a request was pending:
\* the state after it has two sockets, the first one destroyed.
C8_Witness ==
  /\ Len(sockets) = 2 /\ sockets[1].owner = 1 /\ sockets[2].owner = 1
  /\ sockets[1].st = "destroyed" /\ sockets[2].st = "connecting"
  /\ clients[1].socket = 2
  /\ \E p \in 1..Len(promises) : promises[p].kind = "exec" /\ promises[p].st = "pending"

----------------------------------------------------------------------------
(* C10: a session has at most one listener on the LogReceiver, the one its logListener
   refers to, under every interleaving of its enable_logs and disable_logs handlers, and a
   log line is sent to the session at most once. *)
C10_AtMostOneListener ==
  /\ Cardinality(logReceiver.listeners) <= 1
  /\ \A l \in logReceiver.listeners : l.id = session.logListener
  /\ Cardinality(Sends("log_event")) <= 1

\* enable_logs was issued again while subscribed: the second listener is the only one, and
\* both handlers are still awaiting their logaddress_add.
C10_Witness ==
  /\ session.nextListener = 3
  /\ logReceiver.listeners = {[id |-> 2, targetHost |-> session.rconHost]}
  /\ Cardinality({p \in 1..Len(promises) : promises[p].h = "enable_logs" /\ promises[p].st = "pending"}) = 2

----------------------------------------------------------------------------
(* C4: a packet of type AuthResponse with id -1 removes the oldest pending request,
   whatever its id, and calls its reject with 'Authentication failed'; the client does not
   become authenticated, and when the request is the auth of a connect() that connect()
   is rejected. *)
IsAuthFailure(pk) == pk.type = PacketType_AUTH_RESPONSE /\ pk.id = AuthFailureId

C4_Step ==
  (Len(handled') = 1 /\ IsAuthFailure(handled'[1]) /\ clients[1].pendingRequests # <<>>) =>
    LET e == Head(clients[1].pendingRequests)
    IN /\ clients'[1].pendingRequests = Tail(clients[1].pendingRequests)
       /\ \E i \in 1..Len(events') :
            /\ events'[i].t = "reject" /\ events'[i].a = e.p
            /\ events'[i].k = "Authentication failed"
       /\ ~(\E i \in 1..Len(events') : events'[i].t = "resolve")
       /\ clients'[1].authenticated = clients[1].authenticated
       /\ promises[e.p].kind = "auth" =>
            /\ ~clients'[1].authenticated
            /\ promises'[promises[e.p].parent].st = "rejected"
            /\ promises[e.p].st = "pending" =>
                 \E i \in 1..Len(events') :
                   events'[i] = EvSettle("reject", "Authentication failed", promises[e.p].parent, TRUE)

C4_AuthFailureFailsOldest == [][C4_Step]_vars

\* The failure packet was just handled while the auth request, registered under id 1, was
\* the oldest: its connect() is rejected with 'Authentication failed'.
C4_Witness ==
  /\ Len(handled) = 1 /\ IsAuthFailure(handled[1])
  /\ clients[1].pendingRequests = <<>> /\ ~clients[1].authenticated
  /\ \E p \in 1..Len(promises) :
       /\ promises[p].kind = "auth" /\ promises[p].id = 1 /\ promises[p].st = "rejected"
       /\ promises[promises[p].parent].st = "rejected"
       /\ \E i \in 1..Len(events) :
            events[i] = EvSettle("reject", "Authentication failed", promises[p].parent, TRUE)

----------------------------------------------------------------------------
(* C6: a packet settles exactly the pending request registered under the packet's id,
   whatever the order of arrival, and leaves the other requests alone; a packet whose id
   matches no pending request changes no client state; every packet is emitted as a
   'response' event.  C6_AsWritten is the statement for every packet; C6_ByRequestId
   exempts the AuthResponse packet with id -1, which fails the oldest pending request. *)
C6_Emitted ==
  \E i \in 1..Len(events') : events'[i] = EvEmit("response", 1, handled'[1].id)

C6_Matched(pk) ==
  LET pending == clients[1].pendingRequests
      e == pending[CHOOSE i \in 1..Len(pending) : pending[i].id = pk.id]
      own == {e.p} \cup (IF promises[e.p].kind = "auth" THEN {promises[e.p].parent} ELSE {})
  IN /\ clients'[1].pendingRequests = MapDelete(pending, pk.id)
     /\ Cardinality({i \in 1..Len(events') : events'[i].t = "resolve" /\ events'[i].a = e.p}) = 1
     /\ \A i \in 1..Len(events') :
          events'[i].t \in {"resolve", "reject"} => events'[i].t = "resolve" /\ events'[i].a \in own
     /\ \A p \in 1..Len(promises) : p \notin own => promises'[p] = promises[p]
     /\ promises[e.p].kind = "exec" => promises[e.p].st = "pending" /\ promises'[e.p].st = "resolved"

\* The state handlePacket can touch: all of the client but its receive buffer, which
\* handleData has consumed before the dispatch.
C6_Unmatched ==
  /\ [clients'[1] EXCEPT !.responseBuffer = <<>>] = [clients[1] EXCEPT !.responseBuffer = <<>>]
  /\ promises' = promises
  /\ sockets' = sockets
  /\ \A i \in 1..Len(events') : events'[i].t \notin {"resolve", "reject"}

C6_StepAsWritten ==
  Len(handled') = 1 =>
    /\ IF \E i \in 1..Len(clients[1].pendingRequests) : clients[1].pendingRequests[i].id = handled'[1].id
       THEN C6_Matched(handled'[1])
       ELSE C6_Unmatched
    /\ C6_Emitted

C6_AsWritten == [][C6_StepAsWritten]_vars

C6_Step ==
  (Len(handled') = 1 /\ ~IsAuthFailure(handled'[1])) =>
    /\ IF \E i \in 1..Len(clients[1].pendingRequests) : clients[1].pendingRequests[i].id = handled'[1].id
       THEN C6_Matched(handled'[1])
       ELSE C6_Unmatched
    /\ C6_Emitted

C6_ByRequestId == [][C6_Step]_vars

\* The response to the second command was just handled while the first command, sent
\* before it, is still pending.
C6_Witness ==
  /\ Len(handled) = 1 /\ handled[1].id = 3 /\ handled[1].type = PacketType_RESPONSE_VALUE
  /\ Len(clients[1].pendingRequests) = 1 /\ clients[1].pendingRequests[1].id = 2
  /\ \E p \in 1..Len(promises) :
       /\ promises[p].kind = "exec" /\ promises[p].id = 3 /\ promises[p].st = "resolved"
  /\ \E p \in 1..Len(promises) :
       /\ promises[p].kind = "exec" /\ promises[p].id = 2 /\ promises[p].st = "pending"

----------------------------------------------------------------------------
(* C2: on a step that closes a client's socket, by the socket's 'close' event or by the
   client's own disconnect(), the reject of every request pending before the step is
   called with 'Connection closed', the pending table is empty after the step and the
   client is not authenticated. *)
ClosedBy(c, s) ==
  /\ sockets[s].owner = c
  /\ \/ sockets[s].st = "destroyed" /\ sockets'[s].st = "closed"
     \/ /\ Live(s) /\ sockets'[s].st = "destroyed"
        /\ clients[c].socket = s /\ clients'[c].socket # s

C2_Step ==
  \A c \in 1..Len(clients) : \A s \in 1..Len(sockets) :
    ClosedBy(c, s) =>
      /\ \A j \in 1..Len(clients[c].pendingRequests) :
           \E i \in 1..Len(events') :
             /\ events'[i].t = "reject" /\ events'[i].k = "Connection closed"
             /\ events'[i].a = clients[c].pendingRequests[j].p
      /\ clients'[c].pendingRequests = <<>>
      /\ ~clients'[c].authenticated

C2_CloseFailsPending == [][C2_Step]_vars

----------------------------------------------------------------------------
(* C3: a request is in the pending table only while its promise is unsettled, that is it
   was removed by the first of its response, its timeout and the close; and no resolve or
   reject of a request is called after the request was settled. *)
C3_SettledOnce ==
  /\ \A c \in 1..Len(clients) : \A j \in 1..Len(clients[c].pendingRequests) :
       promises[clients[c].pendingRequests[j].p].st = "pending"
  /\ \A i \in 1..Len(events) :
       (events[i].t \in {"resolve", "reject"} /\ promises[events[i].a].kind \in {"auth", "exec"})
         => events[i].b = 1

----------------------------------------------------------------------------
(* C5: a client changes state only along Disconnected -> Connecting -> Authenticating ->
   Ready, or from any state to Disconnected; a Command packet is written only to the
   socket of a client that is Ready; and the gateway calls execute() only on a Ready
   client, so that no call is turned down as 'Not authenticated'. *)
ClientStateOf(cl, so, c) ==
  IF cl[c].socket = 0 THEN "Disconnected"
  ELSE IF so[cl[c].socket].st = "connecting" THEN "Connecting"
  ELSE IF so[cl[c].socket].st # "open" THEN "Disconnected"
  ELSE IF cl[c].authenticated THEN "Ready" ELSE "Authenticating"

StateOrder ==
  {<<"Disconnected", "Connecting">>, <<"Connecting", "Authenticating">>,
   <<"Authenticating", "Ready">>,
   <<"Connecting", "Disconnected">>, <<"Authenticating", "Disconnected">>,
   <<"Ready", "Disconnected">>}

C5_Step ==
  /\ \A c \in 1..Len(clients) :
       \/ ClientStateOf(clients', sockets', c) = ClientStateOf(clients, sockets, c)
       \/ <<ClientStateOf(clients, sockets, c), ClientStateOf(clients', sockets', c)>> \in StateOrder
  /\ \A c \in (Len(clients) + 1)..Len(clients') :
       ClientStateOf(clients', sockets', c) \in {"Disconnected", "Connecting"}
  /\ \A i \in 1..Len(events') :
       /\ (events'[i].t = "write" /\ events'[i].k = "EXEC") =>
            /\ events'[i].a <= Len(sockets)
            /\ ClientStateOf(clients, sockets, sockets[events'[i].a].owner) = "Ready"
            /\ clients[sockets[events'[i].a].owner].socket = events'[i].a
       /\ events'[i].t = "reject" => events'[i].k # "Not authenticated"

C5_CommandsOnlyWhenReady == [][C5_Step]_vars

\* A client went through the four states and a command was just written to its socket.
C5_Witness ==
  /\ session.rcon # 0 /\ ClientStateOf(clients, sockets, session.rcon) = "Ready"
  /\ \E i \in 1..Len(events) :
       /\ events[i].t = "write" /\ events[i].k = "EXEC"
       /\ events[i].a = clients[session.rcon].socket
  /\ \E c \in 1..Len(clients) : c # session.rcon /\ ClientStateOf(clients, sockets, c) = "Disconnected"

----------------------------------------------------------------------------
(* C9: at most one RconClient made by the session has a live socket. *)
C9_OneLiveClient ==
  Cardinality({c \in 1..Len(clients) : LiveSockets(c) # {}}) <= 1

----------------------------------------------------------------------------
(* C11: teardown removes the session's log listener before it disconnects the session's
   RconClient: at the point where the 'close' handler turns to the client no listener is
   registered and no socket was touched yet, and once teardown is over no listener is
   registered and the client the session held has no live socket. *)
C11_UnsubscribeBeforeDisconnect ==
  /\ session.open =>
       LET w1 == onWsCloseUnsubscribe(World)
       IN /\ w1.logReceiver.listeners = {}
          /\ w1.session.logListener = 0
          /\ w1.sockets = sockets /\ w1.clients = clients
          /\ onWsClose(World).logReceiver.listeners = {}
  /\ ~session.open =>
       /\ logReceiver.listeners = {}
       /\ session.closedWith.rcon # 0 => LiveSockets(session.closedWith.rcon) = {}

\* Teardown ran on a session with a listener and a client: the client's socket was
\* destroyed by it and its 'close' event is still to come.
C11_Witness ==
  /\ ~session.open /\ session.closedWith.listener # 0 /\ session.closedWith.rcon # 0
  /\ logReceiver.listeners = {}
  /\ \E s \in 1..Len(sockets) :
       sockets[s].owner = session.closedWith.rcon /\ sockets[s].st = "destroyed"

----------------------------------------------------------------------------
(* C12: no gateway handler lets an exception escape: a failed operation is answered with
   an `error` message or ignored. *)
C12_NoEscapingException ==
  \A i \in 1..Len(events) : events[i].t # "throw"

----------------------------------------------------------------------------
(* C13: when timers that stay armed expire, every connect() and execute() call is
   settled in the end, whatever the backend sends and whatever disconnect(), socket error
   or close happens meanwhile: again and again no call is pending, and a settled call
   stays settled, so a call pending at any moment is settled later. *)
C13_CallsSettle ==
  []<>(\A p \in 1..Len(promises) :
         promises[p].kind \in {"connect", "exec"} => promises[p].st # "pending")

\* An execute() whose request was dropped by a disconnect() has just been rejected by its
\* own timer.
C13_Witness ==
  /\ clients[1].socket = 0
  /\ \E p \in 1..Len(promises) :
       /\ promises[p].kind = "exec" /\ promises[p].st = "rejected"
       /\ events = <<EvSettle("reject", "Command timed out", p, TRUE)>>

----------------------------------------------------------------------------
(* C14: the connect timer is armed only while the call is pending and its socket is not
   established; when it expires the call is rejected with 'Connection timed out', the
   socket of the attempt is destroyed, and the client has no socket and is not
   authenticated. *)
C14_Armed ==
  \A s \in 1..Len(sockets) :
    promises[sockets[s].p].timer =>
      sockets[s].st # "open" /\ promises[sockets[s].p].st = "pending"

C14_Step ==
  \A i \in 1..Len(events') :
    (events'[i].t = "reject" /\ events'[i].k = "Connection timed out") =>
      LET p == events'[i].a
      IN /\ events'[i].b = 1
         /\ promises'[p].st = "rejected" /\ ~promises'[p].timer
         /\ \A s \in 1..Len(sockets) : sockets[s].p = p => ~LiveNext(s)
         /\ clients'[promises[p].c].socket = 0
         /\ ~clients'[promises[p].c].authenticated

C14_ConnectTimeout == []C14_Armed /\ [][C14_Step]_vars

\* The connect timer has just expired on a socket that was still connecting.
C14_Witness ==
  /\ \E p \in 1..Len(promises) :
       /\ events = <<EvSettle("reject", "Connection timed out", p, TRUE)>>
       /\ \E s \in 1..Len(sockets) : sockets[s].p = p /\ sockets[s].st = "destroyed"
  /\ clients[1].socket = 0

----------------------------------------------------------------------------
(* C15: execute() on a client that is not authenticated rejects at once with
   'Not authenticated' and changes nothing: the client (request id, pending table) and
   the sockets are as before, the call has no timer and nothing is written. *)
C15_Step ==
  /\ (/\ Len(promises') = Len(promises) + 1
      /\ promises'[Len(promises')].kind = "exec"
      /\ ~clients[promises'[Len(promises')].c].authenticated)
       => events' = <<EvSettle("reject", "Not authenticated", Len(promises'), TRUE)>>
  /\ \A i \in 1..Len(events') :
       (events'[i].t = "reject" /\ events'[i].k = "Not authenticated") =>
         LET p == events'[i].a
         IN /\ p = Len(promises) + 1 /\ Len(promises') = p
            /\ SubSeq(promises', 1, Len(promises)) = promises
            /\ promises'[p].st = "rejected" /\ ~promises'[p].timer /\ promises'[p].id = 0
            /\ ~clients[promises'[p].c].authenticated
            /\ clients' = clients
            /\ sockets' = sockets
            /\ \A j \in 1..Len(events') : events'[j].t # "write"

C15_NotAuthenticatedFailsFast == [][C15_Step]_vars

\* execute() was just turned down on a client whose socket is open and whose
\* authentication is still pending.
C15_Witness ==
  /\ clients[1].socket # 0 /\ sockets[clients[1].socket].st = "open"
  /\ ~clients[1].authenticated /\ Len(clients[1].pendingRequests) = 1
  /\ events = <<EvSettle("reject", "Not authenticated", Len(promises), TRUE)>>

----------------------------------------------------------------------------
(* C16: in every state of a client, disconnect() throws nothing and leaves the client
   with no socket, not authenticated, with an empty pending table and an empty buffer,
   its socket destroyed; a second disconnect() changes nothing more. *)
C16_DisconnectIdempotent ==
  LET w1 == disconnect(World, 1)
      w2 == disconnect(w1, 1)
  IN /\ w1.events = <<>>
     /\ w1.clients[1] = [NewClient(FALSE) EXCEPT !.requestId = clients[1].requestId]
     /\ clients[1].socket # 0 => w1.sockets[clients[1].socket].st \notin {"connecting", "open"}
     /\ w2 = w1

\* disconnect() was called on a connected client with a request in flight: the socket is
\* destroyed, the client is reset and the request's promise is still pending.
C16_Witness ==
  /\ clients[1] = [NewClient(FALSE) EXCEPT !.requestId = 2]
  /\ sockets # <<>> /\ sockets[Len(sockets)].st = "destroyed"
  /\ \E p \in 1..Len(promises) :
       promises[p].kind = "exec" /\ promises[p].id = 2 /\ promises[p].st = "pending"
  /\ events = <<>>

----------------------------------------------------------------------------
(* C17: the ids encodePacket returns on one RconClient instance.  C17_AsWritten: they
   increase strictly over the life of the instance, the first being 1.
   C17_IncreasingPerConnection: each id is one more than the id before it, the first id
   after each connect() being 1. *)
Issued(p) == promises[p].kind \in {"auth", "exec"} /\ promises[p].id # 0

C17_AsWritten ==
  \A q \in 1..Len(promises) :
    Issued(q) =>
      IF \E p \in 1..(q - 1) : Issued(p) /\ promises[p].c = promises[q].c
      THEN \A p \in 1..(q - 1) :
             (Issued(p) /\ promises[p].c = promises[q].c) => promises[p].id < promises[q].id
      ELSE promises[q].id = 1

C17_IncreasingPerConnection ==
  \A q \in 1..Len(promises) :
    Issued(q) =>
      LET before == {p \in 1..(q - 1) :
                       /\ promises[p].c = promises[q].c
                       /\ promises[p].kind = "connect" \/ Issued(p)}
      IN /\ before # {}
         /\ LET prev == CHOOSE p \in before : \A r \in before : r <= p
            IN promises[q].id = IF promises[prev].kind = "connect" THEN 1
                                ELSE promises[prev].id + 1

\* The instance connected twice and each connection's authentication request got id 1.
C17_Witness ==
  /\ Len(promises) = 4
  /\ promises[2].kind = "auth" /\ promises[2].id = 1
  /\ promises[3].kind = "connect"
  /\ promises[4].kind = "auth" /\ promises[4].id = 1

----------------------------------------------------------------------------
(* C18: over a whole queryA2SInfo call at most one retry is sent, whatever replies
   arrive: the socket carries the first request and at most one request with a
   challenge. *)
C18_AtMostOneRetry == Len(a2s.sent) <= 2

----------------------------------------------------------------------------
(* C19: when a queryA2SInfo call is settled, by an Info reply, a parse failure, a socket
   error or the timeout, its UDP socket is closed; the call is settled exactly when its
   `settled` flag is set, and the socket is never closed twice. *)
C19_SocketClosedWhenSettled ==
  /\ a2s.st \in {"resolved", "rejected"} => a2s.socket = "closed"
  /\ a2s.settled <=> a2s.st \in {"resolved", "rejected"}
  /\ ~a2s.thrown

\* The call was rejected by an Info reply that could not be parsed, after a retry.
C19_Witness ==
  /\ a2s.st = "rejected" /\ a2s.err = "parse" /\ a2s.socket = "closed"
  /\ Len(a2s.sent) = 2 /\ Len(a2s.replies) = 2

----------------------------------------------------------------------------
(* C20: with a timer that fires, a queryA2SInfo call is settled in the end; it resolves
   only on an Info reply that parses, with the parsed reply; a call settled without a new
   reply is rejected, by the timeout or by the socket error; and while the call is pending
   the timer stays armed, whatever too-short or Challenge replies arrived. *)
C20_Outcome ==
  /\ a2s.st = "pending" => a2s.timer /\ a2s.socket = "open"
  /\ a2s.st = "resolved" =>
       /\ a2s.replies # <<>>
       /\ LET last == a2s.replies[Len(a2s.replies)]
          IN /\ Len(last) >= 5 /\ last[5] = S2A_INFO_SRC
             /\ parseA2SInfoResponse(last) = [ok |-> TRUE, info |-> a2s.value]
  /\ (a2s.st = "rejected" /\ a2s.err = "parse") =>
       /\ a2s.replies # <<>>
       /\ ~parseA2SInfoResponse(a2s.replies[Len(a2s.replies)]).ok

C20_Step ==
  (a2s.st = "pending" /\ a2s'.st # "pending" /\ a2s'.replies = a2s.replies) =>
    /\ a2s'.st = "rejected" /\ a2s'.err \in {"timeout", "socket"}
    /\ (a2s'.timer = FALSE) /\ (a2s'.err = "timeout" <=> a2s' = onA2STimer(a2s))

C20_QuerySettles ==
  /\ <>(a2s.st # "pending")
  /\ []C20_Outcome
  /\ [][C20_Step]_vars

\* The call timed out after only a too-short reply and a Challenge had arrived.
C20_Witness ==
  /\ a2s.st = "rejected" /\ a2s.err = "timeout"
  /\ Len(a2s.replies) = 2 /\ a2s.replies[1] = TooShort /\ a2s.replies[2] \in Challenges
  /\ Len(a2s.sent) = 2

----------------------------------------------------------------------------
(* C29: for every ASCII body, packet type and 32-bit id, decodePacket of the bytes that
   encodePacket lays out gives back the same id, type and body; the size field is
   4 + 4 + len(body) + 2 and the packet is size + 4 bytes long.  The same holds of the
   packets of every stream the client is fed.  (The inputs that no stream holds are
   tried once, before the first read.) *)
AsciiBodies == Bodies \cup {<<0>>, <<127, 10>>, <<115, 116, 97, 116>>}
Int32Ids == {AuthFailureId, 0, 1, MaxPacketId, 2147483647, (-2147483647) - 1}
AllPacketTypes == {PacketType_RESPONSE_VALUE, PacketType_EXEC_COMMAND, PacketType_AUTH}

RoundTrip(id, type, body) ==
  LET bytes == PacketBytes(id, type, body)
      d == decodePacket(bytes)
  IN /\ d.kind = "packet"
     /\ d.id = id /\ d.type = type /\ d.body = body
     /\ ReadInt32LE(bytes, 0) = 4 + 4 + Len(body) + 2
     /\ d.size = 4 + 4 + Len(body) + 2
     /\ Len(bytes) = d.size + 4 /\ d.totalLength = Len(bytes)

C29_RoundTrip ==
  /\ fed = 0 => \A id \in Int32Ids, type \in AllPacketTypes, body \in AsciiBodies : RoundTrip(id, type, body)
  /\ \A i \in 1..Len(stream.packets) :
       RoundTrip(stream.packets[i].id, stream.packets[i].type, stream.packets[i].body)
  /\ \A i \in 1..Len(handled) :
       /\ handled[i].id = stream.packets[i].id
       /\ handled[i].type = stream.packets[i].type
       /\ handled[i].body = stream.packets[i].body

\* A packet with a non-empty body and the id -1 was encoded, fed and decoded.
C29_Witness ==
  /\ Len(handled) >= 1
  /\ handled[1].body # <<>> /\ handled[1].id = AuthFailureId
  /\ fed = Len(PacketBytes(handled[1].id, handled[1].type, handled[1].body))

----------------------------------------------------------------------------
(* C30: decodePacket returns null, and does not throw, for every buffer of fewer than 4
   bytes and for every proper prefix of a valid packet; when the bytes of a valid packet
   arrive in reads cut at any byte, nothing is decoded before its last byte has arrived
   and exactly one packet is decoded once it has. *)
ShortBuffers == UNION {[1..n -> {0, 10, 255}] : n \in 0..3}

PrefixesIncomplete(bytes) ==
  /\ \A k \in 0..(Len(bytes) - 1) : decodePacket(SubSeq(bytes, 1, k)) = NullPacket
  /\ decodePacket(bytes).kind = "packet"

C30_IncompleteUntilLastByte ==
  /\ fed = 0 =>
       /\ \A b \in ShortBuffers : decodePacket(b) = NullPacket
       /\ \A id \in Int32Ids, type \in AllPacketTypes, body \in AsciiBodies :
            PrefixesIncomplete(PacketBytes(id, type, body))
  /\ stream.packets # <<>> =>
       LET first == PacketBytes(stream.packets[1].id, stream.packets[1].type, stream.packets[1].body)
       IN /\ PrefixesIncomplete(first)
          /\ fed < Len(first) => handled = <<>> /\ clients[1].responseBuffer = SubSeq(first, 1, fed)
          /\ fed = Len(first) => Len(handled) = 1 /\ clients[1].responseBuffer = <<>>
          /\ \A i \in 1..Len(events) : events[i].t # "throw"

\* All but the last byte of a packet have arrived and nothing was decoded.
C30_Witness ==
  /\ stream.packets # <<>>
  /\ fed = PacketSize(stream.packets[1]) + 4 - 1
  /\ handled = <<>>
  /\ Len(clients[1].responseBuffer) = fed

\* The last byte of a packet has arrived and the packet was decoded once.
C30_WitnessDecoded ==
  /\ Len(stream.packets) = 1
  /\ fed = PacketSize(stream.packets[1]) + 4
  /\ Len(handled) = 1

----------------------------------------------------------------------------
(* C21: a malformed or too-short datagram received by a pending A2S query is dropped: the
   query stays pending, is not rejected, keeps its socket and timer, and sends nothing. *)
MalformedReplies == {TooShort, ShortChallenge, CutInfoReply}

C21_MalformedDropped ==
  [][\A m \in MalformedReplies :
       a2s.st = "pending" /\ a2s'.replies = Append(a2s.replies, m) =>
         /\ a2s'.st = "pending" /\ a2s'.err = ""
         /\ a2s'.socket = a2s.socket /\ a2s'.timer = a2s.timer
         /\ a2s'.sent = a2s.sent]_vars

----------------------------------------------------------------------------
(* C22: the receiver never owns more than one open UDP socket, whatever start() and
   stop() calls were made: at most one socket is binding or bound, and it is the
   receiver's current socket once bound. *)
OpenLogSockets == {s \in 1..Len(recv.socks) : recv.socks[s].st \in {"binding", "bound"}}

C22_AtMostOneOpenSocket ==
  /\ Cardinality(OpenLogSockets) <= 1
  /\ \A s \in OpenLogSockets : recv.socks[s].st = "bound" => recv.socket = s

----------------------------------------------------------------------------
(* C23: a datagram is delivered as one notification per line that has a character other
   than white space, in line order, each with the datagram's source address and port and
   the trimmed line, to every registered listener in turn and whatever the source; lines
   that are empty or white space give none. *)
LineEnd(text, a) ==
  CHOOSE b \in (a - 1)..Len(text) :
    /\ \A j \in a..b : text[j] # 10
    /\ b = Len(text) \/ text[b + 1] = 10

NonBlankStarts(text) ==
  {a \in 1..Len(text) :
     /\ a = 1 \/ text[a - 1] = 10
     /\ \E i \in a..LineEnd(text, a) : ~IsWhiteSpace(text[i])}

Nth(S, k) == CHOOSE a \in S : Cardinality({x \in S : x < a}) = k - 1

\* The events of the lines of a text, in line order.
ExpectedEvents(text) ==
  [k \in 1..Cardinality(NonBlankStarts(text)) |->
     LET a == Nth(NonBlankStarts(text), k)
     IN [raw |-> Trim(SubSeq(text, a, LineEnd(text, a)))]]

ExpectedMsgs(text, rinfo) ==
  [k \in 1..Len(ExpectedEvents(text)) |->
     [sourceIp |-> rinfo.address, sourcePort |-> rinfo.port, event |-> ExpectedEvents(text)[k]]]

C23_OnePerLineToEveryListener ==
  recv.last # <<>> =>
    LET m == recv.last[1]
        msgs == ExpectedMsgs(MessageText(m.buf), m.rinfo)
        n == Len(recv.logSubs)
    IN /\ Len(m.delivered) = Len(msgs) * n
       /\ \A j \in 1..Len(m.delivered) :
            /\ m.delivered[j].to = recv.logSubs[((j - 1) % n) + 1]
            /\ m.delivered[j].msg = msgs[((j - 1) \div n) + 1]
       /\ \A j \in 1..Len(m.delivered) : m.delivered[j].msg.event.raw # <<>>

\* A datagram of two lines and blank lines between and after them, from the second
\* source, was delivered to two listeners.
C23_Witness ==
  /\ recv.last # <<>>
  /\ recv.last[1].buf = <<65, 10, 10, 32, 66, 32, 10>>
  /\ recv.last[1].rinfo.address = 2
  /\ Len(recv.logSubs) = 2
  /\ Len(recv.last[1].delivered) = 4

----------------------------------------------------------------------------
(* C24: a datagram that starts FF FF FF FF "log", with or without a NUL after it, is
   delivered as the lines of the text after that header, so one line after the header
   gives each listener one event whose raw is that line; a datagram that does not start
   with FF FF FF FF is delivered as the lines of all of its bytes. *)
RawsTo(l) ==
  LET d == SelectSeq(recv.last[1].delivered, LAMBDA x : x.to = l)
  IN [j \in 1..Len(d) |-> d[j].msg.event.raw]

RawsOf(bytes) ==
  LET e == ExpectedEvents(Utf8Decode(bytes))
  IN [j \in 1..Len(e) |-> e[j].raw]

HasLogHeader(buf) == Len(buf) >= 7 /\ SubSeq(buf, 1, 7) = OOB \o LogTag

AfterLogHeader(buf) == IF Len(buf) >= 8 /\ buf[8] = 0 THEN Drop(buf, 8) ELSE Drop(buf, 7)

HasPrefix(buf) == Len(buf) >= 4 /\ SubSeq(buf, 1, 4) = OOB

C24_HeaderStripped ==
  recv.last # <<>> =>
    LET buf == recv.last[1].buf
    IN \A i \in 1..Len(recv.logSubs) :
         /\ HasLogHeader(buf) => RawsTo(recv.logSubs[i]) = RawsOf(AfterLogHeader(buf))
         /\ HasLogHeader(buf) /\ AfterLogHeader(buf) = <<65>> =>
              RawsTo(recv.logSubs[i]) = << <<65>> >>
         /\ ~HasPrefix(buf) => RawsTo(recv.logSubs[i]) = RawsOf(buf)

\* A datagram of the header without NUL and one line was delivered to a listener.
C24_Witness ==
  /\ recv.last # <<>>
  /\ recv.last[1].buf = OOB \o LogTag \o <<65>>
  /\ recv.logSubs # <<>>
  /\ RawsTo(recv.logSubs[1]) = << <<65>> >>

----------------------------------------------------------------------------
(* C25: an error of the receiver's UDP socket never leaves the socket's 'error' handler
   as an exception, whether or not the receiver has an 'error' listener. *)
C25_SocketErrorNotThrown == ~recv.thrown

----------------------------------------------------------------------------
(* C26: a listener's registration or removal changes no other listener's registration or
   place in the calling order, and every listener registered when a datagram is handled
   receives the notifications of its lines, once each, in order and unaltered, whatever
   other listeners are or were registered. *)
Without(subs, l) == SelectSeq(subs, LAMBDA x : x # l)

DeliveredTo(l) ==
  LET d == SelectSeq(recv.last[1].delivered, LAMBDA x : x.to = l)
  IN [j \in 1..Len(d) |-> d[j].msg]

Registered(subs, l) == \E i \in 1..Len(subs) : subs[i] = l

\* A step that changes the registry adds or removes one listener and leaves the others.
C26_Step ==
  /\ recv'.logSubs # recv.logSubs =>
       \E a \in 1..MaxSubscribers :
         /\ Registered(recv'.logSubs, a) # Registered(recv.logSubs, a)
         /\ Without(recv'.logSubs, a) = Without(recv.logSubs, a)
  /\ recv'.last # <<>> => recv'.logSubs = recv.logSubs

\* What the handler of a datagram delivered to each listener.
C26_Delivery ==
  recv.last # <<>> =>
    LET msgs == ExpectedMsgs(MessageText(recv.last[1].buf), recv.last[1].rinfo)
    IN \A b \in 1..MaxSubscribers :
         DeliveredTo(b) = IF Registered(recv.logSubs, b) THEN msgs ELSE <<>>

C26_ListenersIndependent == []C26_Delivery /\ [][C26_Step]_vars

\* The listeners were registered second one first, and a datagram of two lines was
\* delivered to both.
C26_Witness ==
  /\ recv.logSubs = <<2, 1>>
  /\ recv.last # <<>>
  /\ Len(recv.last[1].delivered) = 4
  /\ recv.last[1].delivered[1].to = 2 /\ recv.last[1].delivered[2].to = 1

----------------------------------------------------------------------------
(* C27: a log_event is sent to the session only for a datagram whose source is the host
   of the session's current RconClient: once the session has a client for another host,
   no datagram of the previous host is forwarded. *)
\* The host client c was made for by the gateway's `connect`.
ClientHost(c) ==
  LET ps == {p \in 1..Len(promises) : promises[p].kind = "connect" /\ promises[p].c = c}
  IN IF ps = {} THEN 0 ELSE promises[CHOOSE p \in ps : TRUE].host

C27_NoEventFromPreviousHost ==
  \A i \in 1..Len(events) :
    events[i].t = "send" /\ events[i].k = "log_event" /\ session.rcon # 0 =>
      ClientHost(session.rcon) = events[i].a

----------------------------------------------------------------------------
(* C28: a request_status handled with a connected client starts, in that one step, the
   A2S query and the executes of `status` and `stats`; each of the three keeps its timer
   while it is pending; and the step in which the last of the three settles, however
   each settled, sends one server_status immediately followed by one player_list, the
   server_status with the static fields of the A2S result when the query was resolved
   and of the parsed status otherwise.  No other step sends either message. *)
IsStatusSend(e, g) ==
  /\ e.t = "send" /\ e.k \in {"server_status", "player_list"}
  /\ e.g = g

SettledGroup(ps, g) ==
  /\ Len(ps) >= g + 2
  /\ \A j \in g..(g + 2) : ps[j].st # "pending"

C28_Started ==
  LET g == Len(promises) + 1
  IN Len(promises') > Len(promises) /\ promises'[g].kind = "a2s" =>
       /\ session.rcon # 0 /\ isConnected(World, session.rcon)
       /\ Len(promises') = g + 2
       /\ promises'[g].st = "pending" /\ promises'[g].timer
       /\ promises'[g].host = session.rconHost /\ session.rconHost # 0
       /\ \A j \in {g + 1, g + 2} :
            /\ promises'[j].kind = "exec" /\ promises'[j].h = "request_status"
            /\ promises'[j].st = "pending" /\ promises'[j].timer
            /\ promises'[j].c = session.rcon
       /\ Cardinality({i \in 1..Len(events') : events'[i].t = "write" /\ events'[i].k = "EXEC"}) = 2

C28_Replied ==
  \A g \in 1..Len(promises') :
    promises'[g].kind = "a2s" =>
      LET idx == {i \in 1..Len(events') : IsStatusSend(events'[i], g)}
      IN IF SettledGroup(promises', g) /\ ~SettledGroup(promises, g)
         THEN \E i \in 1..(Len(events') - 1) :
                /\ idx = {i, i + 1}
                /\ events'[i].k = "server_status" /\ events'[i + 1].k = "player_list"
                /\ events'[i].a = IF promises'[g].st = "resolved" THEN 1 ELSE 0
                /\ events'[i + 1].a = IF promises'[g + 1].st = "resolved" THEN 1 ELSE 0
         ELSE idx = {}

C28_Armed ==
  \A g \in 1..Len(promises) :
    promises[g].kind = "a2s" =>
      \A j \in g..(g + 2) : promises[j].st = "pending" => promises[j].timer

C28_StatusThenPlayers == []C28_Armed /\ [][C28_Started /\ C28_Replied]_vars

\* The replies were sent after the A2S query was resolved and both executes had failed.
C28_Witness ==
  \E i \in 1..Len(events) :
    /\ events[i].t = "send" /\ events[i].k = "server_status" /\ events[i].a = 1
    /\ promises[events[i].g + 1].st = "rejected"
    /\ promises[events[i].g + 2].st = "rejected"

\* The replies were sent with the fields of the parsed status, the A2S query having failed.
C28_WitnessFallback ==
  \E i \in 1..Len(events) :
    /\ events[i].t = "send" /\ events[i].k = "server_status" /\ events[i].a = 0
    /\ promises[events[i].g + 1].st = "resolved"

----------------------------------------------------------------------------
(* C31: an execute() call whose command has a character that is not ASCII fails with an
   encoding error: its promise is rejected with it, no packet is written to the socket
   and no pending request is registered for the call. *)
IsAscii(body) == \A i \in 1..Len(body) : body[i] < 128

C31_NonAsciiFails ==
  \A i \in 1..Len(events) :
    (events[i].t = "call" /\ ~IsAscii(events[i].body)) =>
      /\ \E j \in 1..Len(events) : events[j].t = "reject" /\ events[j].a = events[i].a
      /\ ~(\E j \in 1..Len(events) : events[j].t = "write")
      /\ \A c \in 1..Len(clients) :
           \A e \in 1..Len(clients[c].pendingRequests) :
             clients[c].pendingRequests[e].p # events[i].a

----------------------------------------------------------------------------
(* C32: parseLogLine returns one event for a line.  Its category is that of the first
   rule, in the order kill, chat, connected, entered the game, disconnected, Round_Start,
   Round_End, team trigger, all of whose patterns match the text after the timestamp: a
   line that matches the guard of the kill rule and not its full pattern is classified by
   the rules after it.  When no rule matches, the category is other and the message is
   the text after the timestamp. *)
Rules ==
  <<[category |-> "kill", patterns |-> {KILL_GUARD_RE, KILL_RE}],
    [category |-> "chat", patterns |-> {CHAT_RE}],
    [category |-> "connection", patterns |-> {CONNECT_RE}],
    [category |-> "connection", patterns |-> {ENTER_RE}],
    [category |-> "disconnection", patterns |-> {DISCONNECT_RE}],
    [category |-> "round", patterns |-> {ROUND_START_RE}],
    [category |-> "round", patterns |-> {ROUND_END_RE}],
    [category |-> "round", patterns |-> {TEAM_WIN_RE}]>>

\* The rules all of whose patterns match a text.
Matching(body) == {k \in 1..Len(Rules) : \A re \in Rules[k].patterns : Test(re, body)}

\* The text after the timestamp of a trimmed line.
AfterTimestamp(trimmed) ==
  IF Test(TIMESTAMP_RE, trimmed) THEN Group(trimmed, Exec(TIMESTAMP_RE, trimmed), 2) ELSE trimmed

C32_FirstMatchingRule ==
  parsed.events # <<>> =>
    LET body == AfterTimestamp(Trim(parsed.line))
        first == CHOOSE k \in Matching(body) : \A j \in Matching(body) : k <= j
        event == parsed.events[1]
    IN /\ Len(parsed.events) = 1
       /\ event.raw = Trim(parsed.line)
       /\ IF Matching(body) = {}
          THEN event.category = "other" /\ event.message = body
          ELSE /\ event.category = Rules[first].category
               /\ first = 6 => event.message = RoundStarted
               /\ first = 7 => event.message = RoundEnded

\* A line with a timestamp was parsed that matches the guard of the kill rule, not its
\* full pattern, and the chat rule: the event is a chat event.
C32_Witness ==
  /\ parsed.line = Timestamp \o KillGuardInChatLine
  /\ parsed.events # <<>>
  /\ parsed.events[1].category = "chat"
  /\ Test(KILL_GUARD_RE, AfterTimestamp(parsed.line)) /\ ~Test(KILL_RE, AfterTimestamp(parsed.line))

----------------------------------------------------------------------------
(* C33: when a connect() call is resolved its client is connected and authenticated, and
   `connected` is sent to the browser only in the step that resolved the connect() of a
   client that is: no packet of the backend, a packet with the id of the auth request and
   a type other than AuthResponse among them, resolves the call of a client that is not
   authenticated. *)
ConnectsResolved ==
  {i \in 1..Len(events) :
     /\ events[i].t = "resolve" /\ events[i].b = 1
     /\ promises[events[i].a].kind = "connect"}

C33_ResolvedOnlyWhenReady ==
  /\ \A i \in ConnectsResolved : isConnected(World, promises[events[i].a].c)
  /\ Sends("connected") # {} =>
       \E i \in ConnectsResolved : isConnected(World, promises[events[i].a].c)

----------------------------------------------------------------------------
(* C34: for every sequence of bytes the backend sends, handleData returns without an
   exception: decodePacket reads nothing beyond the end of the buffer, and every packet
   it decodes takes at least one byte from the buffer, so that the loop ends. *)
C34_HandleDataReturns ==
  \A i \in 1..Len(events) : events[i].t # "throw"

----------------------------------------------------------------------------
(* C35: when the connect() call of an earlier `connect` message is settled while the
   session refers to the client of a later one, the step leaves the session's rcon,
   rconHost and rconPort as they are; so a session that is closed has no client with a
   live socket left. *)
SettledInStep(p) == promises[p].st = "pending" /\ promises'[p].st # "pending"

C35_Step ==
  \A p \in 1..Len(promises) :
    (/\ promises[p].h = "connect" /\ SettledInStep(p)
     /\ session.rcon # 0 /\ session.rcon # promises[p].c) =>
      /\ session'.rcon = session.rcon
      /\ session'.rconHost = session.rconHost
      /\ session'.rconPort = session.rconPort

C35_Closed ==
  ~session.open => \A c \in 1..Len(clients) : LiveSockets(c) = {}

C35_EarlierAttemptLeavesSession == []C35_Closed /\ [][C35_Step]_vars

----------------------------------------------------------------------------
(* C36: on the step in which the connect() call of the session's client fails, by the
   connect timer, a socket error, an authentication failure or the authenticate timer, and
   the session drops its reference to that client, the client has no live socket. *)
LiveSocketsNext(c) == {s \in 1..Len(sockets') : sockets'[s].owner = c /\ LiveNext(s)}

C36_Step ==
  \A p \in 1..Len(promises) :
    (/\ promises[p].h = "connect" /\ SettledInStep(p) /\ promises'[p].st = "rejected"
     /\ session.rcon = promises[p].c /\ session'.rcon # promises[p].c) =>
      LiveSocketsNext(promises[p].c) = {}

C36_FailedAttemptDestroysSocket == [][C36_Step]_vars

----------------------------------------------------------------------------
(* C37: a step that is the connect timer of an earlier connect() of a client, or the
   'close' event of the socket that earlier connect() made, the client having a newer
   socket, leaves the newer connection as it is: the client's socket and that socket's
   state, the authenticated flag, the pending requests and their promises. *)
\* Socket s was replaced by a newer socket of its client.
Superseded(s) ==
  /\ clients[sockets[s].owner].socket # 0
  /\ clients[sockets[s].owner].socket # s

ConnectTimerFires(s) == promises[sockets[s].p].timer /\ ~promises'[sockets[s].p].timer
CloseEvent(s) == sockets[s].st = "destroyed" /\ sockets'[s].st = "closed"

C37_Step ==
  \A s \in 1..Len(sockets) :
    (Superseded(s) /\ (ConnectTimerFires(s) \/ CloseEvent(s))) =>
      LET c == sockets[s].owner
          current == clients[c].socket
      IN /\ clients'[c].socket = current
         /\ sockets'[current] = sockets[current]
         /\ clients'[c].authenticated = clients[c].authenticated
         /\ clients'[c].pendingRequests = clients[c].pendingRequests
         /\ \A i \in 1..Len(clients[c].pendingRequests) :
              promises'[clients[c].pendingRequests[i].p] = promises[clients[c].pendingRequests[i].p]

C37_SupersededAttemptIsInert == [][C37_Step]_vars

----------------------------------------------------------------------------
(* C38: a log_event is sent to the session only while the session holds an RconClient
   that is connected and authenticated: none after the `disconnect` message was handled
   or the backend connection closed. *)
C38_LogEventOnlyWhileConnected ==
  Sends("log_event") # {} => (session.rcon # 0 /\ isConnected(World, session.rcon))

----------------------------------------------------------------------------
(* C39: whenever the session is quiescent (every promise settled, so no handler is at
   its await, and no socket with a 'connect' or 'close' event to come), the page shows
   connected, i.e. the last of the `connected` and `disconnected` messages it received is
   `connected`, exactly when the session's RconClient is connected and authenticated. *)
Quiescent ==
  /\ \A p \in 1..Len(promises) : promises[p].st # "pending"
  /\ \A s \in 1..Len(sockets) : sockets[s].st \in {"open", "closed"}

C39_ShownConnectedIffConnected ==
  (session.open /\ Quiescent) =>
    (browser.connected <=> (session.rcon # 0 /\ isConnected(World, session.rcon)))

----------------------------------------------------------------------------
(* C40: when a handler has just sent log_streaming with enabled = true, the session
   having handled no disable_logs at all, the session's listener is registered on the
   LogReceiver; also when several enable_logs handlers were interleaved and one failed. *)
NoDisableLogs == \A p \in 1..Len(promises) : promises[p].h # "disable_logs"

C40_EnabledMeansListening ==
  (Sends("log_streaming_on") # {} /\ NoDisableLogs) =>
    \E l \in logReceiver.listeners : l.id = session.logListener
====
